---- MODULE Spec2Model ----
(***************************************************************************)
(* Short-link resolution, caching and update engine of qrkit-dynamic-qr.   *)
(*                                                                         *)
(* The model follows apps/api/src/index.ts (the Hono API: /api/shorten,    *)
(* /api/resolve/:code, PATCH /api/:code, POST /api/update, GET /:code) and *)
(* apps/worker/src/worker.ts (the edge worker).  Every `await` on a        *)
(* backing service (Postgres through Supabase, Redis through Upstash) is   *)
(* one atomic step of a request; promises started with `void` or           *)
(* `waitUntil` are background tasks that run at any later moment.          *)
(* Time is in milliseconds (Date.now()).                                   *)
(***************************************************************************)
EXTENDS Integers, Sequences, FiniteSets, TLC

VARIABLES now, urls, redis, url_scans, click_totals, req, bg, out, ops, ticks, faults

vars == <<now, urls, redis, url_scans, click_totals, req, bg, out, ops, ticks, faults>>

(***************************************************************************)
(* Bounds of the exploration.                                              *)
(***************************************************************************)
\* Requests started in one behaviour.
MaxOps == 2
\* Advances of the clock in one behaviour.
MaxTicks == 2
\* Failures of a backing call (Redis or Postgres) in one behaviour.
MaxFaults == 1

(***************************************************************************)
(* Program constants.                                                      *)
(***************************************************************************)
\* for (let i = 0; i < 3; i++)
\* Variant with one more iteration of the retry loop.
MaxAttemptsPlusOne == 3 + 1

MaxAttempts == 3
\* Math.max(60, ...)
MinTtl == 60
\* ttlSeconds ?? 86400
DefaultTtl == 86400
\* ... / 1000
MsPerSec == 1000
\* alias.length > 7
MaxAliasLen == 7
\* const REDIS_TTL_SECONDS = 60 * 60 * 24
REDIS_TTL_SECONDS == 60 * 60 * 24
\* expires_at: string | null
Null == -1
\* new Date(value).getTime() of a string that is not a time: NaN.
InvalidTime == -2

(***************************************************************************)
(* Inputs.                                                                 *)
(***************************************************************************)
\* Request slots: requests handled concurrently.
Reqs == {"r1", "r2"}
\* Short codes: each is a possible output of generateCode(7) and a valid alias.
Codes == {"sale123", "Xy7kQ2p"}
\* Values of body.alias ("" is an absent alias).
AliasInputs == {"", "sale123", "toolong8", "bad!"}
\* Values of body.long_url / new_url ("" is a missing field).
UrlInputs == {"https://a.example", "https://b.example", "mailto:x", "not a url", ""}
\* body.expires_at, as a distance from Date.now() in ms (Null: absent).
ExpiresIn == {Null, InvalidTime, 0, 30500, 90000500}
\* Path parameters of GET /:code.
PathInputs == Codes \cup {"a/b"}
\* Steps of the clock, ms.
TickSteps == {45000}

(***************************************************************************)
(* Values.                                                                 *)
(***************************************************************************)
NoRow == [long_url |-> "", alias |-> "", expires_at |-> Null, qr_status |-> "", qr_url |-> ""]
NoEntry == [value |-> "", exp |-> 0]
NoCtx == [op |-> "none", url |-> ""]
NoResp == [r |-> "", op |-> "none", code |-> "", arg |-> "", status |-> 0, url |-> "",
           src |-> "", prev |-> NoCtx]
Idle == [op |-> "none", pc |-> "idle", code |-> "", url |-> "", alias |-> "",
         exp |-> Null, i |-> 0, wrote |-> FALSE, after |-> NoCtx]

Max(a, b) == IF a >= b THEN a ELSE b

\* `r:${code}` of cacheGet / cacheSet / cacheDelete and of PATCH's redis.del.
ApiKey(code) == "r:" \o code
\* encodeURIComponent(code) of the worker's redisGet / redisSet.
WorkerKey(code) == code
Keys == {ApiKey(c) : c \in Codes} \cup {WorkerKey(c) : c \in Codes}

\* new URL(value): whether it parses, and its protocol and host.
ParseUrl(value) ==
  CASE value = "https://a.example" -> [ok |-> TRUE, protocol |-> "https:", host |-> "a.example"]
    [] value = "https://b.example" -> [ok |-> TRUE, protocol |-> "https:", host |-> "b.example"]
    [] value = "mailto:x" -> [ok |-> TRUE, protocol |-> "mailto:", host |-> ""]
    [] OTHER -> [ok |-> FALSE, protocol |-> "", host |-> ""]

\* Variant that accepts every string.
isValidUrlAny(value) == TRUE

isValidUrl(value) ==
  LET u == ParseUrl(value) IN u.ok /\ u.protocol # "" /\ u.host # ""

\* /^[a-zA-Z0-9-_]+$/.test(alias)
AliasCharsOk(alias) == alias \notin {"bad!"}

\* expires.getTime() < now
\* Variant with the comparison of the expiry check reversed.
IsExpiredReversed(row, t) == row.expires_at # Null /\ row.expires_at > t

IsExpired(row, t) == row.expires_at # Null /\ row.expires_at < t

\* cacheTtl: undefined (Null) without expires_at.
CacheTtl(row, t) ==
  IF row.expires_at # Null
  THEN Max(MinTtl, (row.expires_at - t) \div MsPerSec)
  ELSE Null

\* Background tasks.  cacheSet(env, code, longUrl, ttlSeconds): the pending
\* redis.set of `r:${code}`.
cacheSet(code, longUrl, ttlSeconds) ==
  [kind |-> "cacheSet", code |-> code, value |-> longUrl,
   ttl |-> IF ttlSeconds = Null THEN DefaultTtl ELSE ttlSeconds, id |-> 0, at |-> 0]

\* logScan(supabase, shortCode, request): the pending insert into url_scans;
\* scanned_at is taken when logScan is called.  id is the request's number.
logScan(code, id) ==
  [kind |-> "logScan", code |-> code, value |-> "", ttl |-> 0, id |-> id, at |-> now]

\* incrementClick(supabase, code): the pending rpc('increment_click_total').
incrementClick(code, id) ==
  [kind |-> "incrementClick", code |-> code, value |-> "", ttl |-> 0, id |-> id, at |-> 0]

\* sendHit(env, code) of the worker: POST /api/analytics/hit, which awaits
\* incrementClick.
sendHit(code, id) ==
  [kind |-> "sendHit", code |-> code, value |-> "", ttl |-> 0, id |-> id, at |-> 0]

\* redis.get: the value of a live key, "" (null) otherwise.
RedisGet(key) ==
  IF redis[key] # NoEntry /\ now < redis[key].exp THEN redis[key].value ELSE ""

\* Requests other than r that are between their first step and their response.
OthersIdle(r) == \A q \in Reqs \ {r} : req[q].pc = "idle"

\* What a request for `code` remembers of the response that preceded its first
\* step: the successful create or update of that code, when no other request
\* is in flight and no time has passed since that response.
Ctx(r, code) ==
  IF /\ OthersIdle(r)
     /\ out.op \in {"shorten", "patch", "update"}
     /\ out.status = 200
     /\ out.code = code
  THEN [op |-> out.op, url |-> out.url]
  ELSE NoCtx

\* The response of request r, whose record is q: the request's code and
\* destination argument, the status, the destination answered and the backing
\* service it came from.  It names the create or
\* update that preceded the request when nothing else ran in between.
Resp(r, q, status, url, src) ==
  [r |-> r, op |-> q.op, code |-> q.code, arg |-> q.url,
   status |-> status, url |-> url, src |-> src,
   prev |-> IF OthersIdle(r) THEN q.after ELSE NoCtx]

\* The request records after a step of r that leaves r's record q: a request
\* that starts ends the "nothing in between" of the requests in flight.
Slots(r, q) ==
  [x \in Reqs |-> IF x = r THEN q
                  ELSE IF req[r].pc = "idle" THEN [req[x] EXCEPT !.after = NoCtx]
                  ELSE req[x]]

Respond(r, q, status, url, src) ==
  /\ req' = Slots(r, Idle)
  /\ out' = Resp(r, q, status, url, src)

Continue(r, q) ==
  /\ req' = Slots(r, q)
  /\ out' = NoResp

\* Slot r takes a new request; the slots fill in order (r2 only while r1 is busy).
CanStart(r) ==
  /\ req[r].pc = "idle"
  /\ ops < MaxOps
  /\ r = "r2" => req["r1"].pc # "idle"
CanFail == faults < MaxFaults

Begin(r, op, code, url) ==
  [Idle EXCEPT !.op = op, !.code = code, !.url = url, !.after = Ctx(r, code)]

\* A store and a cache the program reaches from the empty ones: after
\* POST /api/shorten {long_url: "https://a.example", alias: "sale123"} and its
\* cache priming.
PrimedUrls ==
  [c \in Codes |-> IF c = "sale123"
                   THEN [long_url |-> "https://a.example", alias |-> "sale123",
                         expires_at |-> Null,
                         qr_status |-> "ready", qr_url |-> "data:image/png"]
                   ELSE NoRow]
PrimedRedis ==
  [k \in Keys |-> IF k = ApiKey("sale123")
                  THEN [value |-> "https://a.example", exp |-> DefaultTtl * MsPerSec]
                  ELSE NoEntry]

Init ==
  /\ now = 0
  /\ \/ /\ urls = [c \in Codes |-> NoRow]
        /\ redis = [k \in Keys |-> NoEntry]
     \/ /\ urls = PrimedUrls
        /\ redis = PrimedRedis
  /\ url_scans = <<>>
  /\ click_totals = [c \in Codes |-> 0]
  /\ req = [r \in Reqs |-> Idle]
  /\ bg = {}
  /\ out = NoResp
  /\ ops = 0
  /\ ticks = 0
  /\ faults = 0

(***************************************************************************)
(* The clock; Redis drops the keys whose lifetime has ended.               *)
(***************************************************************************)
Tick(d) ==
  /\ ticks < MaxTicks
  /\ now' = now + d
  /\ ticks' = ticks + 1
  /\ redis' = [k \in Keys |-> IF redis[k] # NoEntry /\ redis[k].exp <= now + d
                              THEN NoEntry ELSE redis[k]]
  /\ out' = NoResp
  /\ req' = [r \in Reqs |-> [req[r] EXCEPT !.after = NoCtx]]
  /\ UNCHANGED <<urls, url_scans, click_totals, bg, ops, faults>>

(***************************************************************************)
(* Background tasks: a promise started with `void` or `waitUntil` settles.  *)
(***************************************************************************)
\* redis.set(`r:${code}`, longUrl, {ex: ttl})
RedisSet(key, value, ttlSeconds) ==
  [redis EXCEPT ![key] = [value |-> value, exp |-> now + ttlSeconds * MsPerSec]]

\* increment_click_total: INSERT ... ON CONFLICT DO UPDATE total_clicks + 1
increment_click_total(code) ==
  [click_totals EXCEPT ![code] = click_totals[code] + 1]

\* Variant in which a scan insert replaces the table's content.
BgRunOverwritesScans(t) ==
  /\ t \in bg
  /\ bg' = bg \ {t}
  /\ \/ /\ t.kind = "cacheSet"
        /\ redis' = RedisSet(ApiKey(t.code), t.value, t.ttl)
        /\ UNCHANGED <<url_scans, click_totals>>
     \/ /\ t.kind = "logScan"
        /\ url_scans' = <<[short_code |-> t.code, scanned_at |-> t.at]>>
        /\ UNCHANGED <<redis, click_totals>>
     \/ /\ t.kind \in {"incrementClick", "sendHit"}
        /\ click_totals' = increment_click_total(t.code)
        /\ UNCHANGED <<redis, url_scans>>
  /\ UNCHANGED <<now, urls, req, out, ops, ticks, faults>>

BgRun(t) ==
  /\ t \in bg
  /\ bg' = bg \ {t}
  /\ \/ /\ t.kind = "cacheSet"
        /\ redis' = RedisSet(ApiKey(t.code), t.value, t.ttl)
        /\ UNCHANGED <<url_scans, click_totals>>
     \/ /\ t.kind = "logScan"
        /\ url_scans' = Append(url_scans, [short_code |-> t.code, scanned_at |-> t.at])
        /\ UNCHANGED <<redis, click_totals>>
     \/ /\ t.kind \in {"incrementClick", "sendHit"}
        /\ click_totals' = increment_click_total(t.code)
        /\ UNCHANGED <<redis, url_scans>>
  /\ UNCHANGED <<now, urls, req, out, ops, ticks, faults>>

\* The task's call fails (or the promise is dropped with the request).
BgFail(t) ==
  /\ t \in bg
  /\ CanFail
  /\ bg' = bg \ {t}
  /\ faults' = faults + 1
  /\ UNCHANGED <<now, urls, redis, url_scans, click_totals, req, out, ops, ticks>>

(***************************************************************************)
(* POST /api/shorten.                                                      *)
(***************************************************************************)
\* What the QR service does with a request: not configured, fetch throws,
\* non-OK status, body with success false, body without dataUrl, or a QR.
QrOutcomes == {"unconfigured", "unreachable", "not_ok", "unsuccessful", "no_data", "ok"}

\* Variant that lets a QR without data through as ready.
generateQrUnchecked(outcome) ==
  IF outcome \in {"unconfigured", "unreachable", "not_ok"}
  THEN [status |-> "failed", qrUrl |-> ""]
  ELSE [status |-> "ready", qrUrl |-> IF outcome = "ok" THEN "data:image/png" ELSE ""]

\* generateQr: never throws; {status, qrUrl} with qrUrl "" for null.
generateQr(outcome) ==
  IF outcome = "unconfigured" THEN [status |-> "failed", qrUrl |-> ""]
  ELSE IF outcome = "unreachable" THEN [status |-> "failed", qrUrl |-> ""]
  ELSE IF outcome = "not_ok" THEN [status |-> "failed", qrUrl |-> ""]
  ELSE IF outcome \in {"unsuccessful", "no_data"} THEN [status |-> "failed", qrUrl |-> ""]
  ELSE [status |-> "ready", qrUrl |-> "data:image/png"]

\* The checks before the retry loop: the status they answer, 0 when all pass.
ShortenValidation(long_url, alias, expIn) ==
  IF long_url = "" THEN 400
  ELSE IF ~isValidUrl(long_url) THEN 400
  ELSE IF expIn \notin {Null, InvalidTime} /\ now + expIn <= now THEN 400
  ELSE IF alias # "" /\ Len(alias) > MaxAliasLen THEN 400
  ELSE IF alias # "" /\ ~AliasCharsOk(alias) THEN 400
  ELSE 0

ShortenStart(r, long_url, alias, expIn) ==
  /\ CanStart(r)
  /\ ops' = ops + 1
  /\ LET q == [Begin(r, "shorten", "", long_url) EXCEPT
                 !.alias = alias,
                 !.exp = IF expIn \in {Null, InvalidTime} THEN expIn ELSE now + expIn]
     IN IF ShortenValidation(long_url, alias, expIn) # 0
        THEN Respond(r, q, 400, "", "")
        ELSE /\ Continue(r, [q EXCEPT !.pc = "attempt"])
  /\ UNCHANGED <<now, urls, redis, url_scans, click_totals, bg, ticks, faults>>

\* Variant in which the unique constraint guards generated codes only.
ConflictGeneratedOnly(code, alias) == alias = "" /\ urls[code] # NoRow

\* The UNIQUE constraints of urls.short_code and urls.alias (error 23505).
Conflict(code, alias) ==
  \/ urls[code] # NoRow
  \/ alias # "" /\ \E c \in Codes : urls[c].alias = alias

\* Variant in which a conflict on a caller-supplied alias is retried like a
\* conflict on a generated code.
ShortenAttemptRetriesAlias(r) ==
  /\ req[r].pc = "attempt"
  /\ LET q == req[r] IN
     \E code \in (IF q.alias # "" THEN {q.alias} ELSE Codes) :
       \/ /\ Conflict(code, q.alias)
          /\ IF q.i + 1 < MaxAttempts
             THEN Continue(r, [q EXCEPT !.i = q.i + 1])
             ELSE Respond(r, q, 500, "", "")
          /\ UNCHANGED <<urls, bg>>
       \/ /\ ~Conflict(code, q.alias)
          /\ LET row == [long_url |-> q.url, alias |-> q.alias, expires_at |-> q.exp,
                         qr_status |-> "ready", qr_url |-> "data:image/png"]
             IN /\ urls' = [urls EXCEPT ![code] = row]
                /\ bg' = bg \cup {cacheSet(code, row.long_url, CacheTtl(row, now))}
                /\ Respond(r, [q EXCEPT !.code = code], 200, row.long_url, "db")
  /\ UNCHANGED <<now, redis, url_scans, click_totals, ops, ticks, faults>>

\* Variant in which the code is always generated and the alias only stored.
ShortenAttemptGeneratedCode(r) ==
  /\ req[r].pc = "attempt"
  /\ LET q == req[r] IN
     \E code \in Codes :
       \/ /\ Conflict(code, q.alias)
          /\ IF q.alias # "" THEN Respond(r, q, 409, "", "")
             ELSE IF q.i + 1 < MaxAttempts
             THEN Continue(r, [q EXCEPT !.i = q.i + 1])
             ELSE Respond(r, q, 500, "", "")
          /\ UNCHANGED <<urls, bg>>
       \/ /\ ~Conflict(code, q.alias)
          /\ LET row == [long_url |-> q.url, alias |-> q.alias, expires_at |-> q.exp,
                         qr_status |-> "ready", qr_url |-> "data:image/png"]
             IN /\ urls' = [urls EXCEPT ![code] = row]
                /\ bg' = bg \cup {cacheSet(code, row.long_url, CacheTtl(row, now))}
                /\ Respond(r, [q EXCEPT !.code = code], 200, row.long_url, "db")
  /\ UNCHANGED <<now, redis, url_scans, click_totals, ops, ticks, faults>>

\* One iteration of the loop: generateQr, createUrl, cache priming, response.
ShortenAttempt(r) ==
  /\ req[r].pc = "attempt"
  /\ LET q == req[r] IN
     \E code \in (IF q.alias # "" THEN {q.alias} ELSE Codes) :
     \E qrResult \in {generateQr(o) : o \in QrOutcomes} :
       \/ /\ CanFail
          /\ faults' = faults + 1
          /\ Respond(r, q, 500, "", "")
          /\ UNCHANGED <<urls, bg>>
       \/ /\ q.exp = InvalidTime
          /\ Respond(r, q, 500, "", "")
          /\ UNCHANGED <<urls, bg, faults>>
       \/ /\ q.exp # InvalidTime
          /\ Conflict(code, q.alias)
          /\ IF q.alias # "" THEN Respond(r, q, 409, "", "")
             ELSE IF q.i + 1 < MaxAttempts
             THEN Continue(r, [q EXCEPT !.i = q.i + 1])
             ELSE Respond(r, q, 500, "", "")
          /\ UNCHANGED <<urls, bg, faults>>
       \/ /\ q.exp # InvalidTime
          /\ ~Conflict(code, q.alias)
          /\ LET row == [long_url |-> q.url, alias |-> q.alias, expires_at |-> q.exp,
                         qr_status |-> qrResult.status, qr_url |-> qrResult.qrUrl]
             IN /\ urls' = [urls EXCEPT ![code] = row]
                /\ bg' = bg \cup {cacheSet(code, row.long_url, CacheTtl(row, now))}
                /\ Respond(r, [q EXCEPT !.code = code], 200, row.long_url, "db")
          /\ UNCHANGED faults
  /\ UNCHANGED <<now, redis, url_scans, click_totals, ops, ticks>>

(***************************************************************************)
(* GET /api/resolve/:code.                                                 *)
(***************************************************************************)
\* findUrlByCode and the expiry check: 404, 410, or 200 with the row.
\* Variant that looks the record up by its alias column.
FindStatusByAlias(code) ==
  IF urls[code] = NoRow \/ urls[code].alias # code THEN 404
  ELSE IF IsExpired(urls[code], now) THEN 410
  ELSE 200

FindStatus(code) ==
  IF urls[code] = NoRow THEN 404
  ELSE IF IsExpired(urls[code], now) THEN 410
  ELSE 200

Resolve(r, code) ==
  /\ CanStart(r)
  /\ ops' = ops + 1
  /\ LET q == Begin(r, "resolve", code, "")
         cached == RedisGet(ApiKey(code))
     IN \/ /\ CanFail
           /\ faults' = faults + 1
           /\ Respond(r, q, 500, "", "")
        \/ /\ cached # ""
           /\ Respond(r, q, 200, cached, "cache")
           /\ UNCHANGED faults
        \/ /\ cached = ""
           /\ Continue(r, [q EXCEPT !.pc = "find"])
           /\ UNCHANGED faults
  /\ UNCHANGED <<now, urls, redis, url_scans, click_totals, bg, ticks>>

ResolveFind(r) ==
  /\ req[r].op = "resolve" /\ req[r].pc = "find"
  /\ LET q == req[r]
         row == urls[q.code]
     IN \/ /\ CanFail
           /\ faults' = faults + 1
           /\ Respond(r, q, 500, "", "")
           /\ UNCHANGED bg
        \/ /\ FindStatus(q.code) # 200
           /\ Respond(r, q, FindStatus(q.code), "", "db")
           /\ UNCHANGED <<bg, faults>>
        \/ /\ FindStatus(q.code) = 200
           /\ bg' = bg \cup {cacheSet(q.code, row.long_url, CacheTtl(row, now))}
           /\ Respond(r, q, 200, row.long_url, "db")
           /\ UNCHANGED faults
  /\ UNCHANGED <<now, urls, redis, url_scans, click_totals, ops, ticks>>

(***************************************************************************)
(* PATCH /api/:code.                                                       *)
(***************************************************************************)
\* The row after update({long_url, updated_at}).eq("short_code", code).
\* Variant that replaces the row instead of patching its long_url.
UpdatedRowReplaced(row, long_url) ==
  [long_url |-> long_url, alias |-> row.alias, expires_at |-> Null,
   qr_status |-> row.qr_status, qr_url |-> row.qr_url]

UpdatedRow(row, long_url) == [row EXCEPT !.long_url = long_url]

\* Variant that deletes the cache entry in the step that writes the store.
PatchInvalidateWithWrite(r, code, long_url) ==
  /\ CanStart(r)
  /\ ops' = ops + 1
  /\ LET q == Begin(r, "patch", code, long_url)
     IN \/ /\ long_url = "" \/ ~isValidUrl(long_url)
           /\ Respond(r, q, 400, "", "")
           /\ UNCHANGED <<urls, redis>>
        \/ /\ long_url # "" /\ isValidUrl(long_url)
           /\ urls[code] = NoRow
           /\ Respond(r, q, 404, "", "")
           /\ UNCHANGED <<urls, redis>>
        \/ /\ long_url # "" /\ isValidUrl(long_url)
           /\ urls[code] # NoRow
           /\ redis' = [redis EXCEPT ![ApiKey(code)] = NoEntry]
           /\ urls' = [urls EXCEPT ![code] = UpdatedRow(urls[code], long_url)]
           /\ Continue(r, [q EXCEPT !.pc = "invalidate", !.wrote = TRUE])
  /\ UNCHANGED <<now, url_scans, click_totals, bg, ticks, faults>>

Patch(r, code, long_url) ==
  /\ CanStart(r)
  /\ ops' = ops + 1
  /\ LET q == Begin(r, "patch", code, long_url)
     IN \/ /\ long_url = "" \/ ~isValidUrl(long_url)
           /\ Respond(r, q, 400, "", "")
           /\ UNCHANGED <<urls, faults>>
        \/ /\ long_url # "" /\ isValidUrl(long_url)
           /\ CanFail
           /\ faults' = faults + 1
           /\ Respond(r, q, 500, "", "")
           /\ UNCHANGED urls
        \/ /\ long_url # "" /\ isValidUrl(long_url)
           /\ urls[code] = NoRow
           /\ Respond(r, q, 404, "", "")
           /\ UNCHANGED <<urls, faults>>
        \/ /\ long_url # "" /\ isValidUrl(long_url)
           /\ urls[code] # NoRow
           /\ urls' = [urls EXCEPT ![code] = UpdatedRow(urls[code], long_url)]
           /\ Continue(r, [q EXCEPT !.pc = "invalidate", !.wrote = TRUE])
           /\ UNCHANGED faults
  /\ UNCHANGED <<now, redis, url_scans, click_totals, bg, ticks>>

\* await redis.del(`r:${shortCode}`) inside try/catch, then the success response.
PatchInvalidate(r) ==
  /\ req[r].op = "patch" /\ req[r].pc = "invalidate"
  /\ LET q == req[r]
     IN \/ /\ redis' = [redis EXCEPT ![ApiKey(q.code)] = NoEntry]
           /\ UNCHANGED faults
        \/ /\ CanFail
           /\ faults' = faults + 1
           /\ UNCHANGED redis
  /\ Respond(r, req[r], 200, req[r].url, "")
  /\ UNCHANGED <<now, urls, url_scans, click_totals, bg, ops, ticks>>

(***************************************************************************)
(* POST /api/update.                                                       *)
(***************************************************************************)
Update(r, code, new_url) ==
  /\ CanStart(r)
  /\ ops' = ops + 1
  /\ LET q == Begin(r, "update", code, new_url)
     IN \/ /\ new_url = "" \/ ~ParseUrl(new_url).ok
           /\ Respond(r, q, 400, "", "")
           /\ UNCHANGED faults
        \/ /\ new_url # "" /\ ParseUrl(new_url).ok
           /\ CanFail
           /\ faults' = faults + 1
           /\ Respond(r, q, 500, "", "")
        \/ /\ new_url # "" /\ ParseUrl(new_url).ok
           /\ urls[code] = NoRow
           /\ Respond(r, q, 404, "", "")
           /\ UNCHANGED faults
        \/ /\ new_url # "" /\ ParseUrl(new_url).ok
           /\ urls[code] # NoRow
           /\ Continue(r, [q EXCEPT !.pc = "write"])
           /\ UNCHANGED faults
  /\ UNCHANGED <<now, urls, redis, url_scans, click_totals, bg, ticks>>

UpdateWrite(r) ==
  /\ req[r].op = "update" /\ req[r].pc = "write"
  /\ LET q == req[r]
     IN \/ /\ CanFail
           /\ faults' = faults + 1
           /\ Respond(r, q, 500, "", "")
           /\ UNCHANGED urls
        \/ /\ urls' = [urls EXCEPT ![q.code] = UpdatedRow(urls[q.code], q.url)]
           /\ Continue(r, [q EXCEPT !.pc = "invalidate", !.wrote = TRUE])
           /\ UNCHANGED faults
  /\ UNCHANGED <<now, redis, url_scans, click_totals, bg, ops, ticks>>

\* await cacheDelete(c.env, code): a failure is caught by the handler's catch (500).
UpdateInvalidate(r) ==
  /\ req[r].op = "update" /\ req[r].pc = "invalidate"
  /\ LET q == req[r]
     IN \/ /\ redis' = [redis EXCEPT ![ApiKey(q.code)] = NoEntry]
           /\ Respond(r, q, 200, q.url, "")
           /\ UNCHANGED faults
        \/ /\ CanFail
           /\ faults' = faults + 1
           /\ Respond(r, q, 500, "", "")
           /\ UNCHANGED redis
  /\ UNCHANGED <<now, urls, url_scans, click_totals, bg, ops, ticks>>

(***************************************************************************)
(* GET /:code.                                                             *)
(***************************************************************************)
\* Variant whose cache-hit path schedules no scan event.
RedirectHitWithoutScan(r, code) ==
  /\ CanStart(r)
  /\ ops' = ops + 1
  /\ LET q == Begin(r, "redirect", code, "")
     IN \/ /\ code \notin Codes
           /\ Respond(r, q, 404, "", "")
        \/ /\ code \in Codes
           /\ RedisGet(ApiKey(code)) # ""
           /\ Respond(r, q, 302, RedisGet(ApiKey(code)), "cache")
        \/ /\ code \in Codes
           /\ RedisGet(ApiKey(code)) = ""
           /\ Continue(r, [q EXCEPT !.pc = "find", !.i = ops + 1])
  /\ UNCHANGED <<now, urls, redis, url_scans, click_totals, bg, ticks, faults>>

Redirect(r, code) ==
  /\ CanStart(r)
  /\ ops' = ops + 1
  /\ LET q == Begin(r, "redirect", code, "")
     IN \/ /\ code \notin Codes
           /\ Respond(r, q, 404, "", "")
           /\ UNCHANGED <<bg, faults>>
        \/ /\ code \in Codes
           /\ CanFail
           /\ faults' = faults + 1
           /\ Respond(r, q, 500, "", "")
           /\ UNCHANGED bg
        \/ /\ code \in Codes
           /\ RedisGet(ApiKey(code)) # ""
           /\ bg' = bg \cup {logScan(code, ops + 1)}
           /\ Respond(r, q, 302, RedisGet(ApiKey(code)), "cache")
           /\ UNCHANGED faults
        \/ /\ code \in Codes
           /\ RedisGet(ApiKey(code)) = ""
           /\ Continue(r, [q EXCEPT !.pc = "find", !.i = ops + 1])
           /\ UNCHANGED <<bg, faults>>
  /\ UNCHANGED <<now, urls, redis, url_scans, click_totals, ticks>>

\* Variant that awaits the cache population before it answers.
RedirectFindAwaiting(r) ==
  /\ req[r].op = "redirect" /\ req[r].pc = "find"
  /\ LET q == req[r]
         row == urls[q.code]
     IN \/ /\ CanFail
           /\ faults' = faults + 1
           /\ Respond(r, q, 500, "", "")
           /\ UNCHANGED <<bg, redis>>
        \/ /\ FindStatus(q.code) # 200
           /\ Respond(r, q, FindStatus(q.code), "", "db")
           /\ UNCHANGED <<bg, redis, faults>>
        \/ /\ FindStatus(q.code) = 200
           /\ redis' = RedisSet(ApiKey(q.code), row.long_url,
                                cacheSet(q.code, row.long_url, CacheTtl(row, now)).ttl)
           /\ bg' = bg \cup {incrementClick(q.code, q.i), logScan(q.code, q.i)}
           /\ Respond(r, q, 302, row.long_url, "db")
           /\ UNCHANGED faults
  /\ UNCHANGED <<now, urls, url_scans, click_totals, ops, ticks>>

RedirectFind(r) ==
  /\ req[r].op = "redirect" /\ req[r].pc = "find"
  /\ LET q == req[r]
         row == urls[q.code]
     IN \/ /\ CanFail
           /\ faults' = faults + 1
           /\ Respond(r, q, 500, "", "")
           /\ UNCHANGED bg
        \/ /\ FindStatus(q.code) # 200
           /\ Respond(r, q, FindStatus(q.code), "", "db")
           /\ UNCHANGED <<bg, faults>>
        \/ /\ FindStatus(q.code) = 200
           /\ bg' = bg \cup {cacheSet(q.code, row.long_url, CacheTtl(row, now)),
                             incrementClick(q.code, q.i), logScan(q.code, q.i)}
           /\ Respond(r, q, 302, row.long_url, "db")
           /\ UNCHANGED faults
  /\ UNCHANGED <<now, urls, redis, url_scans, click_totals, ops, ticks>>

(***************************************************************************)
(* The edge worker's fetch (apps/worker).  Its call of /api/resolve/:code  *)
(* runs the API's resolve handler: steps WorkerApi and WorkerApiFind.      *)
(***************************************************************************)
Worker(r, code) ==
  /\ CanStart(r)
  /\ ops' = ops + 1
  /\ LET q == Begin(r, "worker", code, "")
     IN \/ /\ code \notin Codes
           /\ Respond(r, q, 404, "", "")
           /\ UNCHANGED faults
        \/ /\ code \in Codes
           /\ CanFail
           /\ faults' = faults + 1
           /\ \/ Respond(r, q, 500, "", "")
              \/ Continue(r, [q EXCEPT !.pc = "api", !.i = ops + 1])
        \/ /\ code \in Codes
           /\ RedisGet(WorkerKey(code)) # ""
           /\ Respond(r, q, 301, RedisGet(WorkerKey(code)), "cache")
           /\ UNCHANGED faults
        \/ /\ code \in Codes
           /\ RedisGet(WorkerKey(code)) = ""
           /\ Continue(r, [q EXCEPT !.pc = "api", !.i = ops + 1])
           /\ UNCHANGED faults
  /\ UNCHANGED <<now, urls, redis, url_scans, click_totals, bg, ticks>>

\* resolveViaApi, first half: the API's cacheGet.
WorkerApi(r) ==
  /\ req[r].op = "worker" /\ req[r].pc = "api"
  /\ LET q == req[r]
         cached == RedisGet(ApiKey(q.code))
     IN \/ /\ CanFail
           /\ faults' = faults + 1
           /\ Respond(r, q, 404, "", "")
        \/ /\ cached # ""
           /\ Continue(r, [q EXCEPT !.pc = "set", !.url = cached])
           /\ UNCHANGED faults
        \/ /\ cached = ""
           /\ Continue(r, [q EXCEPT !.pc = "apifind"])
           /\ UNCHANGED faults
  /\ UNCHANGED <<now, urls, redis, url_scans, click_totals, bg, ops, ticks>>

\* resolveViaApi, second half: the API's findUrlByCode; any status but 200
\* reaches the worker as null.
WorkerApiFind(r) ==
  /\ req[r].op = "worker" /\ req[r].pc = "apifind"
  /\ LET q == req[r]
         row == urls[q.code]
     IN \/ /\ CanFail
           /\ faults' = faults + 1
           /\ Respond(r, q, 404, "", "")
           /\ UNCHANGED bg
        \/ /\ FindStatus(q.code) # 200
           /\ Respond(r, q, 404, "", "db")
           /\ UNCHANGED <<bg, faults>>
        \/ /\ FindStatus(q.code) = 200
           /\ bg' = bg \cup {cacheSet(q.code, row.long_url, CacheTtl(row, now))}
           /\ Continue(r, [q EXCEPT !.pc = "set", !.url = row.long_url])
           /\ UNCHANGED faults
  /\ UNCHANGED <<now, urls, redis, url_scans, click_totals, ops, ticks>>

\* await redisSet(env, code, resolved.long_url, REDIS_TTL_SECONDS); void sendHit;
\* redirect.
WorkerSet(r) ==
  /\ req[r].op = "worker" /\ req[r].pc = "set"
  /\ LET q == req[r]
     IN \/ /\ CanFail
           /\ faults' = faults + 1
           /\ Respond(r, q, 500, "", "")
           /\ UNCHANGED <<redis, bg>>
        \/ /\ redis' = RedisSet(WorkerKey(q.code), q.url, REDIS_TTL_SECONDS)
           /\ bg' = bg \cup {sendHit(q.code, q.i)}
           /\ Respond(r, q, 301, q.url, "db")
           /\ UNCHANGED faults
  /\ UNCHANGED <<now, urls, url_scans, click_totals, ops, ticks>>

Next ==
  \/ \E d \in TickSteps : Tick(d)
  \/ \E t \in bg : BgRun(t)
  \/ \E t \in bg : BgFail(t)
  \/ \E r \in Reqs, u \in UrlInputs, a \in AliasInputs, e \in ExpiresIn : ShortenStart(r, u, a, e)
  \/ \E r \in Reqs : ShortenAttempt(r)
  \/ \E r \in Reqs, c \in Codes : Resolve(r, c)
  \/ \E r \in Reqs : ResolveFind(r)
  \/ \E r \in Reqs, c \in Codes, u \in UrlInputs : Patch(r, c, u)
  \/ \E r \in Reqs : PatchInvalidate(r)
  \/ \E r \in Reqs, c \in Codes, u \in UrlInputs : Update(r, c, u)
  \/ \E r \in Reqs : UpdateWrite(r)
  \/ \E r \in Reqs : UpdateInvalidate(r)
  \/ \E r \in Reqs, c \in PathInputs : Redirect(r, c)
  \/ \E r \in Reqs : RedirectFind(r)
  \/ \E r \in Reqs, c \in PathInputs : Worker(r, c)
  \/ \E r \in Reqs : WorkerApi(r)
  \/ \E r \in Reqs : WorkerApiFind(r)
  \/ \E r \in Reqs : WorkerSet(r)

Spec == Init /\ [][Next]_vars

(***************************************************************************)
(* Steps of a request, as the properties below name them.                  *)
(***************************************************************************)
\* Slot r takes its first step in this step, as a request `op` for `code`.
Starts(r, op, code) ==
  /\ req[r].pc = "idle"
  /\ ops' # ops
  /\ \/ req'[r].pc # "idle" /\ req'[r].op = op /\ req'[r].code = code
     \/ req'[r].pc = "idle" /\ out'.r = r /\ out'.op = op /\ out'.code = code

\* Slot r sends its response in this step.
Responds(r) ==
  /\ out'.r = r
  /\ req'[r].pc = "idle"
  /\ ops' # ops \/ req[r].pc # "idle"

\* No backing call fails in this step.
NoFault == faults' = faults

Quiescent ==
  /\ \A r \in Reqs : req[r].pc = "idle"
  /\ \A t \in bg : t.kind # "cacheSet"

Min(a, b) == IF a <= b THEN a ELSE b

\* The TTL policy of the design: min(default_ttl, expires_at - now), in seconds.
PolicyTtl(row, t) ==
  IF row.expires_at # Null
  THEN Min(DefaultTtl, (row.expires_at - t) \div MsPerSec)
  ELSE DefaultTtl

(***************************************************************************)
(* C1.  Update visibility: when a resolve or redirect of a code is the     *)
(* very next request after a successful update of that code to d2 (no      *)
(* other request in between), the destination it returns is d2.            *)
(***************************************************************************)
C1_UpdateVisibleToNextResolve ==
  (/\ out.op \in {"resolve", "redirect"}
   /\ out.prev.op \in {"patch", "update"}
   /\ out.status \in {200, 302})
  => out.url = out.prev.url

(***************************************************************************)
(* C2.  Under every interleaving, once no request is in flight and every   *)
(* background cache write has finished (none having failed), the cache     *)
(* entry of each code is absent or holds the destination the store holds:  *)
(* after an update it never holds the pre-update destination.              *)
(***************************************************************************)
C2_NoStaleEntryAfterUpdate ==
  (Quiescent /\ faults = 0)
  => \A c \in Codes : RedisGet(ApiKey(c)) \in {"", urls[c].long_url}

(***************************************************************************)
(* C3.  Expiry enforcement: no resolve or redirect (API or edge worker)    *)
(* answers with the destination of a link whose expires_at is in the past. *)
(***************************************************************************)
C3_ExpiredNeverServed ==
  (/\ out.op \in {"resolve", "redirect", "worker"}
   /\ out.status \in {200, 301, 302})
  => ~(urls[out.code].expires_at # Null /\ urls[out.code].expires_at < now)

(***************************************************************************)
(* C4.  In every reachable state the lifetime of a cache entry (under the  *)
(* API's key or the worker's) ends no later than the expires_at of its     *)
(* link, when the link has one.                                            *)
(***************************************************************************)
C4_EntryLifetimeWithinExpiry ==
  \A c \in Codes : \A k \in {ApiKey(c), WorkerKey(c)} :
    (urls[c].expires_at # Null /\ redis[k] # NoEntry)
    => redis[k].exp <= urls[c].expires_at

(***************************************************************************)
(* C5.  The TTL of every cache write a request schedules is                *)
(* min(default_ttl, expires_at - now) when the link has an expires_at and  *)
(* default_ttl (86400 s) otherwise.                                        *)
(***************************************************************************)
C5_TtlIsPolicyTtl ==
  [][\A t \in bg' \ bg :
       t.kind = "cacheSet" => t.ttl = PolicyTtl(urls'[t.code], now)]_vars

C7_AliasExclusive ==
  [][\A r \in Reqs :
       (/\ req[r].pc = "attempt" /\ req[r].alias # "" /\ Responds(r)
        /\ NoFault /\ req[r].exp # InvalidTime)
       => LET a == req[r].alias
              taken == \E c \in Codes : urls[c] # NoRow /\ (c = a \/ urls[c].alias = a)
          IN /\ taken => (out'.status = 409 /\ urls' = urls)
             /\ ~taken => /\ out'.status = 200 /\ out'.code = a
                          /\ urls'[a].long_url = req[r].url
                          /\ urls'[a].alias = a
                          /\ \A c \in Codes \ {a} : urls'[c] = urls[c]
             /\ Cardinality({c \in Codes : urls'[c].alias = a}) <= 1]_vars

\* A create with an alias that a record already holds was answered 409.
C7_Witness ==
  /\ out.op = "shorten" /\ out.status = 409
  /\ urls["sale123"].alias = "sale123"

C9_CacheFailureDegrades ==
  [][\A r \in Reqs : \A c \in Codes :
       ((Starts(r, "resolve", c) \/ Starts(r, "redirect", c)) /\ ~NoFault)
       => ~(Responds(r) /\ out'.status >= 500)]_vars

(***************************************************************************)
(* C10.  Within an update (PATCH /api/:code, POST /api/update) the store   *)
(* write comes strictly before the cache invalidation: a cache key is      *)
(* deleted only by the invalidation step of an update whose store write    *)
(* has succeeded, never in the step that writes the store; the success     *)
(* response is sent only by the step in which the invalidation call        *)
(* completes; an update that ends without a successful store write (not    *)
(* found, invalid, store error) leaves the cache untouched.                *)
(***************************************************************************)
C10_WriteBeforeInvalidate ==
  [][\A r \in Reqs :
       LET upd == req[r].op \in {"patch", "update"}
           answers == Responds(r) /\ out'.op \in {"patch", "update"}
       IN /\ \A c \in Codes :
               (redis[ApiKey(c)] # NoEntry /\ redis'[ApiKey(c)] = NoEntry /\ now' = now)
               => \E q \in Reqs : /\ req[q].op \in {"patch", "update"}
                                  /\ req[q].pc = "invalidate" /\ req[q].code = c
                                  /\ req[q].wrote /\ Responds(q)
          /\ (upd /\ req[r].pc = "invalidate")
             => (req[r].wrote /\ urls[req[r].code] # NoRow)
          /\ (\E c \in Codes : urls[c] # NoRow /\ urls'[c] # urls[c]) => redis' = redis
          /\ (answers /\ out'.status = 200)
             => (upd /\ req[r].pc = "invalidate" /\ req[r].wrote)
          /\ (answers /\ out'.status # 200 /\ ~(upd /\ req[r].pc = "invalidate"))
             => redis' = redis]_vars

\* An update answered success after its invalidation removed a live entry.
C10_Witness ==
  /\ out.op \in {"patch", "update"} /\ out.status = 200
  /\ urls[out.code].long_url = out.url
  /\ redis[ApiKey(out.code)] = NoEntry
  /\ faults = 0

(***************************************************************************)
(* C11.  When the store write of an update (PATCH /api/:code or            *)
(* POST /api/update) has succeeded and the cache invalidation call then    *)
(* fails, the request still answers success with the new destination, and  *)
(* the store write stays in place.                                         *)
(***************************************************************************)
C11_InvalidationFailureStillSuccess ==
  [][\A r \in Reqs :
       (/\ req[r].op \in {"patch", "update"} /\ req[r].pc = "invalidate"
        /\ Responds(r) /\ ~NoFault)
       => /\ out'.status = 200
          /\ out'.url = req[r].url
          /\ urls' = urls]_vars

(***************************************************************************)
(* C12.  Every response that redirects to a destination, from the API      *)
(* dispatcher GET /:code and from the edge worker, on a cache hit and on a *)
(* cache miss, has status 302.                                             *)
(***************************************************************************)
C12_RedirectsAre302 ==
  (out.op \in {"redirect", "worker"} /\ out.url # "") => out.status = 302

(***************************************************************************)
(* C14.  On every resolving path (API resolve, API redirect, edge worker), *)
(* with no backing call failing, NotFound (404) is answered only for a     *)
(* code that has no record and Gone (410) only for a code whose record     *)
(* has expired: an expired record is never reported as not found.          *)
(***************************************************************************)
C14_NotFoundDistinctFromGone ==
  (/\ out.op \in {"resolve", "redirect", "worker"}
   /\ out.code \in Codes
   /\ faults = 0)
  => /\ out.status = 404 => urls[out.code] = NoRow
     /\ out.status = 410 => /\ urls[out.code].expires_at # Null
                            /\ urls[out.code].expires_at < now

(***************************************************************************)
(* C15.  A create whose destination is missing or malformed, whose alias   *)
(* is longer than 7 characters or has a character outside [A-Za-z0-9_-],   *)
(* or whose expires_at is not a valid time strictly later than now, never  *)
(* gets past validation; and a create answered 400 inserts no record and   *)
(* schedules no cache write.                                               *)
(***************************************************************************)
C15_CreateValidation ==
  [][\A r \in Reqs :
       /\ (req[r].pc = "idle" /\ req'[r].op = "shorten" /\ req'[r].pc = "attempt")
          => /\ req'[r].url \notin {"", "not a url"}
             /\ req'[r].alias \notin {"toolong8", "bad!"}
             /\ req'[r].exp # InvalidTime
             /\ req'[r].exp # Null => req'[r].exp > now
       /\ (Responds(r) /\ out'.op = "shorten" /\ out'.status = 400)
          => (urls' = urls /\ redis' = redis /\ bg' = bg)]_vars

(***************************************************************************)
(* C13.  The background side effects of a redirect (cache population,      *)
(* scan-event insert, click increment) neither delay nor alter its         *)
(* response: the step that answers 302 only schedules them (none has run   *)
(* yet), and the later completion or failure of any background task        *)
(* leaves the response that was sent, and every request, unchanged.        *)
(***************************************************************************)
C13_SideEffectsNeverAlterRedirect ==
  [][/\ (\E t \in bg : t \notin bg') => (out' = out /\ req' = req)
     /\ \A r \in Reqs :
          (Responds(r) /\ out'.op = "redirect" /\ out'.status = 302)
          => /\ redis' = redis /\ url_scans' = url_scans /\ click_totals' = click_totals
             /\ \E t \in bg' : t.kind = "logScan" /\ t.code = out'.code
             /\ out'.src = "db"
                => /\ \E t \in bg' : t.kind = "cacheSet" /\ t.code = out'.code
                   /\ \E t \in bg' : t.kind = "incrementClick" /\ t.code = out'.code]_vars

\* A redirect answered 302 from the store, and its cache population failed.
C13_Witness ==
  /\ out.op = "redirect" /\ out.status = 302 /\ out.src = "db"
  /\ faults = 1
  /\ \A t \in bg : t.kind # "cacheSet"
  /\ redis[ApiKey(out.code)] = NoEntry

(***************************************************************************)
(* C16.  A create with an alias makes exactly one insert attempt: when the *)
(* store reports a uniqueness conflict it answers 409 in that step, it is  *)
(* never retried, it never succeeds under a code other than the alias,     *)
(* and the existing record and the cache are left unchanged.               *)
(***************************************************************************)
C16_AliasConflictNotRetried ==
  [][\A r \in Reqs :
       (req[r].pc = "attempt" /\ req[r].alias # "")
       => LET a == req[r].alias
              taken == \E c \in Codes : urls[c] # NoRow /\ (c = a \/ urls[c].alias = a)
          IN /\ req[r].i = 0
             /\ req'[r].pc = "attempt" => req'[r].i = 0
             /\ (Responds(r) /\ out'.status = 200) => out'.code = a
             /\ (taken /\ NoFault /\ req[r].exp # InvalidTime /\ req'[r].pc = "idle")
                => /\ Responds(r) /\ out'.status = 409
                   /\ urls' = urls /\ redis' = redis /\ bg' = bg]_vars

\* An aliased create was answered 409; no record under a generated code exists.
C16_Witness ==
  /\ out.op = "shorten" /\ out.status = 409 /\ ops = 2
  /\ urls["sale123"] # NoRow /\ urls["Xy7kQ2p"] = NoRow

(***************************************************************************)
(* C17.  A create without an alias makes at most 3 insert attempts.  An    *)
(* attempt whose generated code does not conflict inserts the record and   *)
(* answers success; a conflict moves to the next attempt with the store    *)
(* unchanged; when the third attempt conflicts the request answers 500     *)
(* with no record inserted and no cache write scheduled; a store error     *)
(* other than a conflict answers 500 at once.                              *)
(***************************************************************************)
C17_AtMostThreeAttempts ==
  [][\A r \in Reqs :
       (req[r].pc = "attempt" /\ req[r].alias = "")
       => /\ req[r].i < 3
          /\ (req'[r].pc = "attempt" /\ req'[r].i # req[r].i)
             => /\ req'[r].i = req[r].i + 1
                /\ NoFault
                /\ urls' = urls /\ bg' = bg /\ out' = NoResp
          /\ (Responds(r) /\ out'.status = 200)
             => /\ urls[out'.code] = NoRow
                /\ urls'[out'.code].long_url = req[r].url
          /\ (Responds(r) /\ out'.status = 500)
             => /\ urls' = urls /\ bg' = bg /\ redis' = redis
                /\ (NoFault /\ req[r].exp # InvalidTime) => req[r].i = 2
          /\ (~NoFault /\ req'[r].pc = "idle")
             => (Responds(r) /\ out'.status = 500)]_vars

\* A create without alias whose first two generated codes conflicted.
C17_Witness ==
  \E r \in Reqs : /\ req[r].pc = "attempt" /\ req[r].alias = ""
                  /\ req[r].i = 2 /\ req[r].exp # InvalidTime

(***************************************************************************)
(* C18.  In every reachable state codes and aliases form one uniqueness    *)
(* space: a record with an alias has that alias as its code, no two        *)
(* records share an alias, and no record's alias is the code of another    *)
(* record.  (Records are keyed by code, so no two share a code.)           *)
(***************************************************************************)
C18_OneUniquenessSpace ==
  \A c \in Codes : \A d \in Codes :
    (urls[c] # NoRow /\ urls[c].alias # "")
    => /\ urls[c].alias = c
       /\ (d # c /\ urls[d] # NoRow)
          => (urls[d].alias # urls[c].alias /\ d # urls[c].alias)

\* A record created with an alias next to a record with a generated code.
C18_Witness ==
  /\ urls["sale123"] # NoRow /\ urls["sale123"].alias = "sale123"
  /\ urls["Xy7kQ2p"] # NoRow /\ urls["Xy7kQ2p"].alias = ""

(***************************************************************************)
(* C19.  An update (PATCH /api/:code, POST /api/update) whose destination  *)
(* is missing or not a URL answers 400 in its first step; one with an      *)
(* http(s) destination for a code that has no record answers 404; and an   *)
(* update answered 400 or 404 leaves the store, the cache and the          *)
(* scheduled cache writes unchanged.                                       *)
(***************************************************************************)
C19_UpdateNotFoundOrInvalid ==
  [][\A r \in Reqs :
       /\ \A c \in Codes : \A op \in {"patch", "update"} :
            (Starts(r, op, c) /\ NoFault)
            => LET arg == IF Responds(r) THEN out'.arg ELSE req'[r].url IN
               /\ arg \in {"", "not a url"}
                  => (Responds(r) /\ out'.status = 400)
               /\ (arg \in {"https://a.example", "https://b.example"} /\ urls[c] = NoRow)
                  => (Responds(r) /\ out'.status = 404)
       /\ (Responds(r) /\ out'.op \in {"patch", "update"} /\ out'.status \in {400, 404})
          => (urls' = urls /\ redis' = redis /\ bg' = bg)]_vars

\* An update with a valid destination for a code without record got 404.
C19_Witness ==
  /\ out.op \in {"patch", "update"} /\ out.status = 404
  /\ out.arg = "https://b.example"
  /\ urls[out.code] = NoRow

(***************************************************************************)
(* C20.  No step removes a record or changes a record's alias or           *)
(* expires_at; a record's destination changes only in the store-write      *)
(* step of an update of its code, to that update's destination, and that   *)
(* step changes no other record.                                           *)
(***************************************************************************)
C20_UpdateFrame ==
  [][\A c \in Codes :
       urls[c] # NoRow
       => /\ urls'[c] # NoRow
          /\ urls'[c].alias = urls[c].alias
          /\ urls'[c].expires_at = urls[c].expires_at
          /\ urls'[c] # urls[c]
             => /\ \A d \in Codes \ {c} : urls'[d] = urls[d]
                /\ \E r \in Reqs :
                     \/ /\ Starts(r, "patch", c)
                        /\ urls'[c].long_url = req'[r].url
                     \/ /\ req[r].op = "update" /\ req[r].pc = "write"
                        /\ req[r].code = c /\ req'[r].pc = "invalidate"
                        /\ urls'[c].long_url = req[r].url]_vars

\* An update succeeded on a record that has an alias and an expires_at.
C20_Witness ==
  /\ out.op \in {"patch", "update"} /\ out.status = 200
  /\ urls[out.code].long_url = out.url
  /\ urls[out.code].alias # "" /\ urls[out.code].expires_at # Null

(***************************************************************************)
(* C21.  When the Link Store lookup of a resolve or redirect fails (an     *)
(* error, not 'no row'), the request is answered with a server error       *)
(* (5xx), on the API and on the edge worker resolving through the API:     *)
(* never NotFound and never a redirect.                                    *)
(***************************************************************************)
C21_StoreFailureIsServerError ==
  [][\A r \in Reqs :
       (/\ req[r].op \in {"resolve", "redirect", "worker"}
        /\ req[r].pc \in {"find", "apifind"}
        /\ ~NoFault /\ Responds(r))
       => out'.status >= 500]_vars

(***************************************************************************)
(* C22.  A redirect of GET /:code that answers 302, from the cache or from *)
(* the store, schedules exactly one scan-event write, for its code, in the *)
(* step that answers; a redirect that answers anything else (404, 410,     *)
(* 500) schedules none, and no other step schedules one.                   *)
(***************************************************************************)
C22_OneScanPerRedirect ==
  [][LET scans == {t \in bg' \ bg : t.kind = "logScan"} IN
     /\ \A r \in Reqs :
          (Responds(r) /\ out'.op = "redirect")
          => IF out'.status = 302
             THEN /\ Cardinality(scans) = 1
                  /\ \A t \in scans : t.code = out'.code
             ELSE scans = {}
     /\ scans # {}
        => \E r \in Reqs : Responds(r) /\ out'.op = "redirect" /\ out'.status = 302]_vars

\* A redirect served from the cache has its scan-event write scheduled.
C22_Witness ==
  /\ out.op = "redirect" /\ out.status = 302 /\ out.src = "cache"
  /\ \E t \in bg : t.kind = "logScan" /\ t.code = out.code

(***************************************************************************)
(* C30.  Scan events are append-only: no step removes or changes an event  *)
(* already written, so the number of events never decreases; a step        *)
(* writes at most one event, and it carries the code and the time of the   *)
(* scan-event write a redirect scheduled.                                  *)
(***************************************************************************)
C30_ScansAppendOnly ==
  [][/\ Len(url_scans') >= Len(url_scans)
     /\ SubSeq(url_scans', 1, Len(url_scans)) = url_scans
     /\ Len(url_scans') > Len(url_scans)
        => /\ Len(url_scans') = Len(url_scans) + 1
           /\ \E t \in bg \ bg' :
                /\ t.kind = "logScan"
                /\ url_scans'[Len(url_scans')] =
                     [short_code |-> t.code, scanned_at |-> t.at]]_vars

\* Two scan events written, by two redirects.
C30_Witness ==
  /\ Len(url_scans) = 2
  /\ \A i \in 1..2 : url_scans[i].short_code \in Codes

(***************************************************************************)
(* C29.  A QR failure never fails a create.  generateQr answers            *)
(* {failed, null} when the service is unconfigured, unreachable, answers   *)
(* non-OK or answers an unsuccessful body; an insert attempt whose code is *)
(* free succeeds whatever generateQr answered, the record it writes has    *)
(* qr_status 'failed' with qr_url null or 'ready' with a qr_url; and the   *)
(* loop moves to another attempt only after a uniqueness conflict.         *)
(***************************************************************************)
C29_QrFailureKeepsCreate ==
  [][/\ \A o \in QrOutcomes \ {"ok"} : generateQr(o) = [status |-> "failed", qrUrl |-> ""]
     /\ \A r \in Reqs :
          (req[r].pc = "attempt" /\ NoFault /\ req[r].exp # InvalidTime)
          => /\ (/\ req'[r].pc = "idle" \/ req'[r].i # req[r].i
                 /\ \/ req[r].alias # "" /\ urls[req[r].alias] = NoRow
                    \/ \A c \in Codes : urls[c] = NoRow)
                => (Responds(r) /\ out'.status = 200)
             /\ Responds(r) => out'.status \in {200, 409, 500}
             /\ (Responds(r) /\ out'.status = 200)
                => LET row == urls'[out'.code] IN
                   /\ urls[out'.code] = NoRow
                   /\ row.long_url = req[r].url
                   /\ \/ row.qr_status = "failed" /\ row.qr_url = ""
                      \/ row.qr_status = "ready" /\ row.qr_url # ""
             /\ (Responds(r) /\ out'.status \in {409, 500})
                => \E c \in Codes : urls[c] # NoRow
             /\ req'[r].i # req[r].i
                => (req[r].alias = "" /\ \E c \in Codes : urls[c] # NoRow)]_vars

\* A create succeeded and its record says the QR generation failed.
C29_Witness ==
  /\ out.op = "shorten" /\ out.status = 200
  /\ urls[out.code].qr_status = "failed" /\ urls[out.code].qr_url = ""
  /\ urls[out.code].long_url = out.url

(***************************************************************************)
(* Code generation (codegen.ts).  crypto.randomBytes(length) is a sequence *)
(* of length bytes, each 0..255, chosen by the environment; generateCode   *)
(* turns byte i into ALPHABET[bytes[i] % ALPHABET.length].                 *)
(***************************************************************************)
MaxCodeLen == 3
ByteValues == 256
CodeLength == 7

ALPHABET == "abcdefghijklmnopqrstuvwxyzABCDEFGHIJKLMNOPQRSTUVWXYZ0123456789"

Bytes == 0..(ByteValues - 1)
CharAt(s, i) == SubSeq(s, i + 1, i + 1)
SymbolIndex(b) == b % Len(ALPHABET)

RECURSIVE generateCodeFrom(_, _, _)
generateCodeFrom(i, length, bytes) ==
  IF i < length
    THEN CharAt(ALPHABET, SymbolIndex(bytes[i + 1])) \o generateCodeFrom(i + 1, length, bytes)
    ELSE ""

generateCodeSkipsFirst(length, bytes) == generateCodeFrom(1, length, bytes)
generateCode(length, bytes) == generateCodeFrom(0, length, bytes)

\* Byte values around the multiples of ALPHABET.length and the ends of the range.
ByteSamples == {0, 7, 8, 61, 62, 69, 70, 247, 248, 255}
ShortenByteSamples == {0, 61, 255}
CodegenInputs ==
  {<<b>> : b \in Bytes}
    \cup UNION {[1..n -> ByteSamples] : n \in 0..MaxCodeLen}
CodegenFrame ==
  /\ now = 0
  /\ urls = [c \in Codes |-> NoRow]
  /\ redis = [k \in Keys |-> NoEntry]
  /\ url_scans = <<>>
  /\ click_totals = [c \in Codes |-> 0]
  /\ bg = {}
  /\ ops = 0
  /\ ticks = 0
  /\ faults = 0

InitCodegen ==
  /\ CodegenFrame
  /\ \/ /\ req = [r \in Reqs |-> Idle]
        /\ \E bytes \in CodegenInputs :
             out = [NoResp EXCEPT !.op = "generateCode", !.arg = bytes]
     \/ \E a \in {"", "sale123"} : \E bytes \in [1..CodeLength -> ShortenByteSamples] :
          /\ req = [r \in Reqs |-> IF r = "r1"
                                     THEN [Idle EXCEPT !.op = "shorten", !.pc = "code", !.alias = a]
                                     ELSE Idle]
          /\ out = [NoResp EXCEPT !.op = "shorten", !.arg = bytes]

\* generateCode(n) on the drawn bytes.
GenerateCodeStep ==
  /\ out.op = "generateCode" /\ out.status = 0
  /\ out' = [out EXCEPT !.code = generateCode(Len(out.arg), out.arg), !.status = 200]
  /\ UNCHANGED <<now, urls, redis, url_scans, click_totals, req, bg, ops, ticks, faults>>

\* const code = alias ?? generateCode(7)
ShortenCodeStep ==
  /\ req["r1"].pc = "code"
  /\ LET code == IF req["r1"].alias # "" THEN req["r1"].alias
                 ELSE generateCode(CodeLength, out.arg) IN
       /\ req' = [req EXCEPT !["r1"].pc = "attempt", !["r1"].code = code]
       /\ out' = [out EXCEPT !.code = code, !.status = 200]
  /\ UNCHANGED <<now, urls, redis, url_scans, click_totals, bg, ops, ticks, faults>>

NextCodegen == GenerateCodeStep \/ ShortenCodeStep
SpecCodegen == InitCodegen /\ [][NextCodegen]_vars

AlphabetSymbols == {CharAt(ALPHABET, k) : k \in 0..(Len(ALPHABET) - 1)}
OverAlphabet(s) == \A i \in 0..(Len(s) - 1) : CharAt(s, i) \in AlphabetSymbols

\* C26: generateCode(n) returns exactly n characters, each one of the 62
\* distinct symbols of the alphabet, for every n >= 0 and every output of the
\* random source; a create without an alias gets a 7-character code of the
\* same alphabet.
C26_CodeLengthAndAlphabet ==
  /\ Cardinality(AlphabetSymbols) = 62
  /\ (out.op = "generateCode" /\ out.status = 200)
       => (Len(out.code) = Len(out.arg) /\ OverAlphabet(out.code))
  /\ (out.op = "shorten" /\ out.status = 200 /\ req["r1"].alias = "")
       => (Len(out.code) = 7 /\ OverAlphabet(out.code))
C26_Witness ==
  /\ out.op = "generateCode" /\ out.status = 200
  /\ out.arg = <<255, 0, 62>> /\ out.code = "haa"

\* C27: every symbol of the alphabet is the image of the same number of byte
\* values 0..255, so that a uniform byte gives a uniform symbol.
C27_UniformSymbols ==
  out.status = 200 =>
    \A s, t \in 0..(Len(ALPHABET) - 1) :
      Cardinality({b \in Bytes : SymbolIndex(b) = s}) = Cardinality({b \in Bytes : SymbolIndex(b) = t})

(***************************************************************************)
(* Click counting.  index.ts increments through rpc('increment_click_total'),*)
(* one atomic upsert in the database; incrementClick of db-supabase.ts     *)
(* reads the row and then writes existing.total_clicks + 1 (or inserts a   *)
(* row with 1), two awaited requests with other increments in between.    *)
(* In click_totals, 0 stands for "no row".  A finished increment stays in  *)
(* bg with kind "done".                                                    *)
(***************************************************************************)
MaxClicks == 3

ClickVia == {"rpc", "select"}
ClickTask(kind, code, id, existing) ==
  [kind |-> kind, code |-> code, id |-> id, existing |-> existing]

\* Every code has its urls row: click_totals.short_code references urls.
ClickUrls ==
  [c \in Codes |-> [long_url |-> "https://a.example", alias |-> "",
                    expires_at |-> Null, qr_status |-> "failed", qr_url |-> ""]]

InitClicks ==
  /\ now = 0
  /\ urls = ClickUrls
  /\ redis = [k \in Keys |-> NoEntry]
  /\ url_scans = <<>>
  /\ click_totals = [c \in Codes |-> 0]
  /\ req = [r \in Reqs |-> Idle]
  /\ bg = {}
  /\ out = NoResp
  /\ ops = 0
  /\ ticks = 0
  /\ faults = 0

\* A call of incrementClick(code): of index.ts (via = "rpc") or of
\* db-supabase.ts (via = "select").
ClickStart(code, via) ==
  /\ ops < MaxClicks
  /\ ops' = ops + 1
  /\ bg' = bg \cup {ClickTask(via, code, ops + 1, 0)}
  /\ UNCHANGED <<now, urls, redis, url_scans, click_totals, req, out, ticks, faults>>

\* INSERT ... ON CONFLICT (short_code) DO UPDATE SET total_clicks = total_clicks + 1
RpcIncrement(t) ==
  /\ t \in bg /\ t.kind = "rpc"
  /\ click_totals' = increment_click_total(t.code)
  /\ bg' = (bg \ {t}) \cup {ClickTask("done", t.code, t.id, 0)}
  /\ UNCHANGED <<now, urls, redis, url_scans, req, out, ops, ticks, faults>>

\* select('total_clicks').eq('short_code', code).single(): existing, null
\* (0) without a row.
DbIncrementSelect(t) ==
  /\ t \in bg /\ t.kind = "select"
  /\ bg' = (bg \ {t}) \cup {ClickTask("write", t.code, t.id, click_totals[t.code])}
  /\ UNCHANGED <<now, urls, redis, url_scans, click_totals, req, out, ops, ticks, faults>>

\* if (existing) update({total_clicks: existing.total_clicks + 1}) else
\* insert({short_code, total_clicks: 1}); the insert of a second row for the
\* primary key fails, and its error is not looked at.
DbIncrementWrite(t) ==
  /\ t \in bg /\ t.kind = "write"
  /\ click_totals' =
       IF t.existing # 0
         THEN [click_totals EXCEPT ![t.code] = t.existing + 1]
         ELSE IF click_totals[t.code] = 0
                THEN [click_totals EXCEPT ![t.code] = 1]
                ELSE click_totals
  /\ bg' = (bg \ {t}) \cup {ClickTask("done", t.code, t.id, 0)}
  /\ UNCHANGED <<now, urls, redis, url_scans, req, out, ops, ticks, faults>>

NextClicks ==
  \/ \E code \in Codes : \E via \in ClickVia : ClickStart(code, via)
  \/ \E t \in bg : RpcIncrement(t)
  \/ \E t \in bg : DbIncrementSelect(t)
  \/ \E t \in bg : DbIncrementWrite(t)
SpecClicks == InitClicks /\ [][NextClicks]_vars

\* C28: N click increments of one code, interleaved in any way, raise its
\* total_clicks by exactly N, the first one creating the row with 1: once
\* every started increment has finished, the total of each code is the
\* number of its increments.
C28_NoLostIncrement ==
  (\A t \in bg : t.kind = "done")
    => \A c \in Codes : click_totals[c] = Cardinality({t \in bg : t.code = c})

(***************************************************************************)
(* GET /api/analytics/:code.  A snapshot is computed from the rows of      *)
(* url_scans of the code, fetched in descending scanned_at order.  A row   *)
(* is [short_code, scanned_at, user_agent, country, city]; "" stands for   *)
(* null.  The runtime's clock does not advance inside the handler's        *)
(* synchronous computation and its local time zone is UTC, so every        *)
(* new Date() of the computation is the same instant and setDate/getDate   *)
(* work on UTC days.                                                       *)
(***************************************************************************)
MaxScans == 3
TopN == 10
SeriesDays == 7
RecentN == 10
DayMs == 24 * 60 * 60 * MsPerSec

Range(s) == {s[i] : i \in DOMAIN s}
Includes(s, w) == \E i \in 1..(Len(s) - Len(w) + 1) : SubSeq(s, i, i + Len(w) - 1) = w

\* String.prototype.toLowerCase, on ASCII letters.
UpperLetters == "ABCDEFGHIJKLMNOPQRSTUVWXYZ"
LowerLetters == "abcdefghijklmnopqrstuvwxyz"
LowerChar(c) ==
  IF \E k \in 0..25 : CharAt(UpperLetters, k) = c
    THEN CharAt(LowerLetters, CHOOSE k \in 0..25 : CharAt(UpperLetters, k) = c)
    ELSE c
RECURSIVE toLowerCase(_)
toLowerCase(s) ==
  IF s = "" THEN "" ELSE LowerChar(SubSeq(s, 1, 1)) \o toLowerCase(SubSeq(s, 2, Len(s)))

\* /(tablet|ipad|playbook|silk)|(android(?!.*mobile))/i on the lower-cased
\* user agent: "android" not followed, anywhere later, by "mobile".
TabletPattern(ua) ==
  \/ \E w \in {"tablet", "ipad", "playbook", "silk"} : Includes(ua, w)
  \/ \E i \in 1..(Len(ua) - 6) :
       /\ SubSeq(ua, i, i + 6) = "android"
       /\ ~Includes(SubSeq(ua, i + 7, Len(ua)), "mobile")

\* /mobile|iphone|ipod|android|blackberry|opera mini|windows phone/i
MobilePattern(ua) ==
  \E w \in {"mobile", "iphone", "ipod", "android", "blackberry", "opera mini",
            "windows phone"} : Includes(ua, w)

\* Variant that tests the mobile pattern before the tablet pattern.
deviceOfMobileFirst(user_agent) ==
  LET ua == toLowerCase(user_agent) IN
    IF ua = "" THEN "unknown"
    ELSE IF MobilePattern(ua) THEN "mobile"
    ELSE IF TabletPattern(ua) THEN "tablet"
    ELSE "desktop"

\* The class of one scan in the device breakdown.
deviceOf(user_agent) ==
  LET ua == toLowerCase(user_agent) IN
    IF ua = "" THEN "unknown"
    ELSE IF TabletPattern(ua) THEN "tablet"
    ELSE IF MobilePattern(ua) THEN "mobile"
    ELSE "desktop"

devices(scanData) ==
  [class \in {"mobile", "desktop", "tablet", "unknown"} |->
     Cardinality({i \in DOMAIN scanData : deviceOf(scanData[i].user_agent) = class})]

\* Keys of the counting object in the order they were first assigned;
\* if (scan.country) skips null and "".
RECURSIVE InsertionOrder(_, _)
InsertionOrder(vals, acc) ==
  IF vals = <<>> THEN acc
  ELSE InsertionOrder(Tail(vals),
                      IF Head(vals) = "" \/ Head(vals) \in Range(acc)
                        THEN acc ELSE Append(acc, Head(vals)))

\* Object.entries lists the keys that are array indices (canonical decimal
\* integers) first, in ascending numeric order, and then the other keys in
\* insertion order.  Keys of more than 9 digits do not occur in the inputs.
Digits == "0123456789"
IsDigits(k) == k # "" /\ \A i \in 0..(Len(k) - 1) : \E d \in 0..9 : CharAt(Digits, d) = CharAt(k, i)
DigitOf(c) == CHOOSE d \in 0..9 : CharAt(Digits, d) = c
RECURSIVE ToNumber(_)
ToNumber(k) ==
  IF k = "" THEN 0
  ELSE ToNumber(SubSeq(k, 1, Len(k) - 1)) * 10 + DigitOf(SubSeq(k, Len(k), Len(k)))
IsArrayIndex(k) == IsDigits(k) /\ Len(k) <= 9 /\ (Len(k) = 1 \/ CharAt(k, 0) # "0")
IsNamedKey(k) == ~IsArrayIndex(k)

RECURSIVE Ascending(_)
Ascending(keys) ==
  IF keys = <<>> THEN <<>>
  ELSE LET m == CHOOSE k \in Range(keys) : \A j \in Range(keys) : ToNumber(k) <= ToNumber(j) IN
         <<m>> \o Ascending(SelectSeq(keys, LAMBDA k : k # m))

ObjectKeys(keys) == Ascending(SelectSeq(keys, IsArrayIndex)) \o SelectSeq(keys, IsNamedKey)

ObjectEntries(vals) ==
  LET keys == ObjectKeys(InsertionOrder(vals, <<>>)) IN
    [j \in DOMAIN keys |->
       [key |-> keys[j], count |-> Cardinality({i \in DOMAIN vals : vals[i] = keys[j]})]]

\* Array.prototype.sort((a, b) => b.count - a.count): stable, so entries of
\* equal count keep their order.  Each entry goes behind the entries already
\* placed that it does not precede.
RECURSIVE sortFromAscending(_, _)
sortFromAscending(entries, acc) ==
  IF entries = <<>> THEN acc
  ELSE LET e == Head(entries)
           ahead == Cardinality({j \in DOMAIN acc : acc[j].count <= e.count})
       IN sortFromAscending(Tail(entries),
                            SubSeq(acc, 1, ahead) \o <<e>> \o SubSeq(acc, ahead + 1, Len(acc)))
RECURSIVE sortFrom(_, _)
sortFrom(entries, acc) ==
  IF entries = <<>> THEN acc
  ELSE LET e == Head(entries)
           ahead == Cardinality({j \in DOMAIN acc : acc[j].count >= e.count})
       IN sortFrom(Tail(entries),
                   SubSeq(acc, 1, ahead) \o <<e>> \o SubSeq(acc, ahead + 1, Len(acc)))

\* Variant that sorts by ascending count.
sortByCountAscending(entries) == sortFromAscending(entries, <<>>)
sortByCount(entries) == sortFrom(entries, <<>>)

slice(s, n) == SubSeq(s, 1, IF Len(s) < n THEN Len(s) ELSE n)

\* topCountries / topCities.
FieldValues(scanData, field) == [i \in DOMAIN scanData |-> scanData[i][field]]
topValues(scanData, field) ==
  slice(sortByCount(ObjectEntries(FieldValues(scanData, field))), TopN)

\* new Date(); setUTCHours(0, 0, 0, 0)
todayStart(t) == (t \div DayMs) * DayMs
scansToday(scanData, t) ==
  Cardinality({i \in DOMAIN scanData : scanData[i].scanned_at >= todayStart(t)})

\* Variant whose day interval includes its end.
last7DaysClosed(scanData, t) ==
  [k \in 1..SeriesDays |->
     LET date == todayStart(t - (SeriesDays - k) * DayMs)
         nextDay == date + DayMs
     IN [date |-> date,
         count |-> Cardinality({i \in DOMAIN scanData :
                      scanData[i].scanned_at >= date /\ scanData[i].scanned_at <= nextDay})]]

\* for (i = 6; i >= 0; i--): the day i days before now, [date, nextDay).
\* An entry's date stands for date.toISOString().split("T")[0], the calendar
\* day that starts at that instant.
last7Days(scanData, t) ==
  [k \in 1..SeriesDays |->
     LET date == todayStart(t - (SeriesDays - k) * DayMs)
         nextDay == date + DayMs
     IN [date |-> date,
         count |-> Cardinality({i \in DOMAIN scanData :
                      scanData[i].scanned_at >= date /\ scanData[i].scanned_at < nextDay})]]

\* recent_scans: scanData.slice(0, 10) with the device label of the list.
recentScans(scanData) ==
  LET recent == slice(scanData, RecentN) IN
    [i \in DOMAIN recent |->
       [scanned_at |-> recent[i].scanned_at, country |-> recent[i].country,
        city |-> recent[i].city,
        device |-> IF Includes(toLowerCase(recent[i].user_agent), "mobile")
                     THEN "mobile" ELSE "desktop"]]

\* .eq("short_code", shortCode).order("scanned_at", {ascending: false}):
\* rows of equal scanned_at stay in table order, and the tables drawn below
\* come in every order.
RECURSIVE orderFrom(_, _)
orderFrom(rows, acc) ==
  IF rows = <<>> THEN acc
  ELSE LET e == Head(rows)
           ahead == Cardinality({j \in DOMAIN acc : acc[j].scanned_at >= e.scanned_at})
       IN orderFrom(Tail(rows),
                    SubSeq(acc, 1, ahead) \o <<e>> \o SubSeq(acc, ahead + 1, Len(acc)))
\* Variant without the order clause: the rows come in table order.
selectScansTableOrder(table, shortCode) ==
  SelectSeq(table, LAMBDA row : row.short_code = shortCode)
selectScans(table, shortCode) ==
  orderFrom(SelectSeq(table, LAMBDA row : row.short_code = shortCode), <<>>)

Snapshot(r, shortCode, status, urlRow, scanData, t) ==
  [r |-> r, op |-> "analytics", code |-> shortCode, arg |-> scanData, status |-> status,
   url |-> urlRow.long_url, src |-> "store", prev |-> NoCtx,
   total_scans |-> Len(scanData),
   scans_today |-> scansToday(scanData, t),
   top_countries |-> topValues(scanData, "country"),
   top_cities |-> topValues(scanData, "city"),
   devices |-> devices(scanData),
   scans_over_time |-> last7Days(scanData, t),
   recent_scans |-> recentScans(scanData)]

\* Inputs: instants of day 10 and the days before it.
Day(n) == n * DayMs
AnalyticsNows == {Day(10), Day(10) + 5 * 60 * 60 * MsPerSec}
Scan(code, at, ua, country, city) ==
  [short_code |-> code, scanned_at |-> at, user_agent |-> ua, country |-> country,
   city |-> city]
ScanPool ==
  { Scan("sale123", Day(10) + 60 * 60 * MsPerSec, "Mozilla/5.0 (iPhone; CPU iPhone OS 17_0)", "US", "Paris"),
    Scan("sale123", Day(10), "Mozilla/5.0 (iPad; CPU OS 17_0) Mobile/15E148", "CA", "10"),
    Scan("sale123", Day(10) - 1, "Mozilla/5.0 (Linux; Android 13; SM-X200) Safari/537.36", "US", "7"),
    Scan("sale123", Day(4), "", "", ""),
    Scan("sale123", Day(4) - 1, "Mozilla/5.0 (Windows NT 10.0; Win64; x64)", "CA", "Paris"),
    Scan("sale123", Day(7) + 12 * 60 * 60 * MsPerSec,
         "Mozilla/5.0 (Linux; Android 13; Pixel 7) Mobile Safari/537.36", "DE", "Lyon"),
    Scan("Xy7kQ2p", Day(10), "Mozilla/5.0 (Macintosh) Mobile Android", "US", "Lyon"),
    Scan("sale123", Day(0), "curl/8.4.0", "FR", "") }
ExampleCountries == <<"US", "US", "US", "CA", "CA">>
ManyCountries == <<"US", "CA", "DE", "FR", "GB", "JP", "BR", "IN", "AU", "MX", "KR", "KR", "NL">>
ScanLists ==
  UNION {[1..n -> ScanPool] : n \in 0..MaxScans}
    \cup {[i \in DOMAIN ExampleCountries |->
             Scan("sale123", Day(9) - i, "curl/8.4.0", ExampleCountries[i], "Paris")]}
    \cup {[i \in DOMAIN ManyCountries |->
             Scan("sale123", Day(9) - i, "", "US", ManyCountries[i])]}
    \cup {[i \in DOMAIN ManyCountries |->
             Scan("sale123", Day(9) + i, "", ManyCountries[i], "")]}

InitAnalytics ==
  /\ now \in AnalyticsNows
  /\ urls \in {PrimedUrls, ClickUrls}
  /\ redis = [k \in Keys |-> NoEntry]
  /\ url_scans \in {table \in ScanLists : \A i \in DOMAIN table : table[i].scanned_at <= now}
  /\ click_totals = [c \in Codes |-> 0]
  /\ req = [r \in Reqs |-> Idle]
  /\ bg = {}
  /\ out = NoResp
  /\ ops = 0
  /\ ticks = 0
  /\ faults = 0

\* The handler: findUrlByCode, the select of the code's scans, the snapshot.
\* A failure of either store request answers 500.
Analytics(r, shortCode) ==
  /\ ops = 0
  /\ ops' = 1
  /\ \/ /\ faults < MaxFaults
        /\ faults' = faults + 1
        /\ out' = [NoResp EXCEPT !.r = r, !.op = "analytics", !.code = shortCode, !.status = 500]
     \/ /\ urls[shortCode] = NoRow
        /\ out' = [NoResp EXCEPT !.r = r, !.op = "analytics", !.code = shortCode, !.status = 404]
        /\ UNCHANGED faults
     \/ /\ urls[shortCode] # NoRow
        /\ out' = Snapshot(r, shortCode, 200, urls[shortCode], selectScans(url_scans, shortCode), now)
        /\ UNCHANGED faults
  /\ UNCHANGED <<now, urls, redis, url_scans, click_totals, req, bg, ticks>>

NextAnalytics == \E shortCode \in Codes : Analytics("r1", shortCode)
SpecAnalytics == InitAnalytics /\ [][NextAnalytics]_vars

\* A successful snapshot, and the scan list it was computed from.
IsSnapshot == out.op = "analytics" /\ out.status = 200
EventsOf(code) == {i \in DOMAIN url_scans : url_scans[i].short_code = code}
CountIn(scans, field, v) == Cardinality({i \in DOMAIN scans : scans[i][field] = v})
FirstSeen(scans, field, v) ==
  CHOOSE i \in DOMAIN scans :
    scans[i][field] = v /\ \A j \in DOMAIN scans : scans[j][field] = v => i <= j
ValuesOf(scans, field) == {scans[i][field] : i \in DOMAIN scans} \ {""}

\* A top list but for the order of its ties: the distinct non-null values
\* with their exact counts, by descending count, cut to the 10 first.
TopListOf(list, scans, field) ==
  /\ Len(list) = Min(10, Cardinality(ValuesOf(scans, field)))
  /\ \A i \in DOMAIN list :
       /\ list[i].key \in ValuesOf(scans, field)
       /\ list[i].count = CountIn(scans, field, list[i].key)
  /\ \A i, j \in DOMAIN list :
       i < j => (list[i].key # list[j].key /\ list[i].count >= list[j].count)

\* tie(a, b): of two values of equal count, a comes before b.  Ties are kept
\* in that order, in the list and at the cut.
TiesKept(list, scans, field, tie(_, _)) ==
  /\ \A i, j \in DOMAIN list :
       (i < j /\ list[i].count = list[j].count) => tie(list[i].key, list[j].key)
  /\ \A v \in ValuesOf(scans, field) \ {list[i].key : i \in DOMAIN list} :
       \A i \in DOMAIN list :
         \/ CountIn(scans, field, v) < list[i].count
         \/ CountIn(scans, field, v) = list[i].count /\ tie(list[i].key, v)

C24_TodayAndSeries ==
  IsSnapshot =>
    LET today == now - (now % 86400000)
        within(from, to) ==
          Cardinality({i \in DOMAIN out.arg :
                         from <= out.arg[i].scanned_at /\ out.arg[i].scanned_at < to})
        series == out.scans_over_time
    IN /\ out.scans_today = within(today, today + 86400000)
       /\ Len(series) = 7
       /\ \A k \in 1..7 :
            /\ series[k].date = today - (7 - k) * 86400000
            /\ series[k].count = within(series[k].date, series[k].date + 86400000)
       /\ series[7].count = out.scans_today
       /\ series[1].count + series[2].count + series[3].count + series[4].count
            + series[5].count + series[6].count + series[7].count <= out.total_scans
C24_Witness ==
  /\ IsSnapshot /\ now = Day(10) + 5 * 60 * 60 * MsPerSec
  /\ out.total_scans = 3 /\ out.scans_today = 1
  /\ \E i \in DOMAIN out.arg : out.arg[i].scanned_at = Day(4) - 1
  /\ \E i \in DOMAIN out.arg : out.arg[i].scanned_at = Day(4)
  /\ \E i \in DOMAIN out.arg : out.arg[i].scanned_at = Day(10)
  /\ [k \in 1..7 |-> out.scans_over_time[k].count] = <<1, 0, 0, 0, 0, 0, 1>>

\* C25: every scan event is counted in exactly one of mobile, desktop,
\* tablet, unknown, so the four counts sum to total_count; an event without
\* a user agent counts as unknown; a user agent that matches a tablet
\* pattern counts as tablet even if it also matches a mobile pattern.
C25_DeviceClasses ==
  IsSnapshot =>
    LET count(P(_)) == Cardinality({i \in DOMAIN out.arg : P(out.arg[i].user_agent)})
        none(ua) == ua = ""
        tablet(ua) == ua # "" /\ TabletPattern(toLowerCase(ua))
        mobile(ua) == ua # "" /\ ~TabletPattern(toLowerCase(ua)) /\ MobilePattern(toLowerCase(ua))
    IN /\ DOMAIN out.devices = {"mobile", "desktop", "tablet", "unknown"}
       /\ out.devices.mobile + out.devices.desktop + out.devices.tablet
            + out.devices.unknown = out.total_scans
       /\ out.devices.unknown = count(none)
       /\ out.devices.tablet = count(tablet)
       /\ out.devices.mobile = count(mobile)
C25_Witness ==
  /\ IsSnapshot /\ out.total_scans = 3
  /\ out.devices = [mobile |-> 1, desktop |-> 0, tablet |-> 1, unknown |-> 1]
  /\ \E i \in DOMAIN out.arg :
       /\ Includes(out.arg[i].user_agent, "iPad") /\ Includes(out.arg[i].user_agent, "Mobile")

\* C31: the recent events of a snapshot are the events of the code with the
\* greatest occurred_at, at most 10, in descending occurred_at order: the
\* k-th entry is an event of the code that fewer than k events are newer
\* than; with 10 or fewer events the list has them all.
C31_RecentEvents ==
  IsSnapshot =>
    LET recent == out.recent_scans
        events == EventsOf(out.code)
        newer(t) == Cardinality({e \in events : url_scans[e].scanned_at > t})
        notOlder(t) == Cardinality({e \in events : url_scans[e].scanned_at >= t})
    IN /\ Len(recent) = Min(10, Cardinality(events))
       /\ \A k \in DOMAIN recent :
            /\ \E e \in events :
                 /\ url_scans[e].scanned_at = recent[k].scanned_at
                 /\ url_scans[e].country = recent[k].country
                 /\ url_scans[e].city = recent[k].city
            /\ newer(recent[k].scanned_at) < k
            /\ notOlder(recent[k].scanned_at) >= k
       /\ \A j, k \in DOMAIN recent : j < k => recent[j].scanned_at >= recent[k].scanned_at
C31_Witness ==
  /\ IsSnapshot /\ out.total_scans = 13 /\ Len(out.recent_scans) = 10
  /\ url_scans[1].scanned_at = Day(9) + 1
  /\ out.recent_scans[1].scanned_at = Day(9) + 13
  /\ out.recent_scans[10].scanned_at = Day(9) + 4

\* C38: every event in the recent events carries the device label of the
\* class under which the device breakdown of the same snapshot counts it.
C38_RecentDeviceMatchesBreakdown ==
  IsSnapshot =>
    \A i \in DOMAIN out.recent_scans :
      /\ out.recent_scans[i].device = deviceOf(out.arg[i].user_agent)
      /\ out.devices[out.recent_scans[i].device] >= 1

(***************************************************************************)
(* The QR generator (QRCodeGenerator.java).  Data is a string, here the    *)
(* sequence of its code points; String.length() counts UTF-16 code units.  *)
(* The model ends where the chosen version and the data are handed to the  *)
(* QR writer.                                                              *)
(***************************************************************************)
MaxQrLen == 80
MAX_VERSION == 3
BYTE_CAPACITY == <<17, 32, 53>>
ALPHANUMERIC_CAPACITY == <<25, 47, 77>>

\* [0-9A-Z $%*+\-./:]
AlphanumericChars == (48..57) \cup (65..90) \cup {32, 36, 37, 42, 43, 45, 46, 47, 58}
\* ^[0-9A-Z $%*+\-./:]*$ with matches()
isAlphanumeric(data) == \A i \in DOMAIN data : data[i] \in AlphanumericChars

\* data.length(): a code point above U+FFFF is two code units.
RECURSIVE length(_)
length(data) ==
  IF data = <<>> THEN 0
  ELSE (IF Head(data) >= 65536 THEN 2 ELSE 1) + length(Tail(data))

detectOptimalMode(data) == IF isAlphanumeric(data) THEN "ALPHANUMERIC" ELSE "BYTE"

getRequiredVersion(data, mode) ==
  LET capacities == IF mode = "BYTE" THEN BYTE_CAPACITY ELSE ALPHANUMERIC_CAPACITY IN
    IF \E i \in DOMAIN capacities : length(data) <= capacities[i]
      THEN CHOOSE i \in DOMAIN capacities :
             /\ length(data) <= capacities[i]
             /\ \A j \in DOMAIN capacities : length(data) <= capacities[j] => i <= j
      ELSE MAX_VERSION + 1

\* generateQRCode(data, outputPath, mode): rejected (IllegalArgumentException)
\* or the version passed to the writer.
generateQRCode(data, mode) ==
  IF mode \notin {"BYTE", "ALPHANUMERIC"} THEN [ok |-> FALSE, version |-> 0, mode |-> mode]
  ELSE IF mode = "ALPHANUMERIC" /\ ~isAlphanumeric(data)
    THEN [ok |-> FALSE, version |-> 0, mode |-> mode]
  ELSE IF getRequiredVersion(data, mode) > MAX_VERSION
    THEN [ok |-> FALSE, version |-> 0, mode |-> mode]
  ELSE [ok |-> TRUE, version |-> getRequiredVersion(data, mode), mode |-> mode]

\* Inputs: runs of one character, 'A', 'a', U+00E9 or U+1F600, with or
\* without one more character at the end.
Repeat(c, n) == [i \in 1..n |-> c]
QrData ==
  {Repeat(c, n) \o tail : c \in {65, 97, 233, 128512}, n \in 0..MaxQrLen,
                          tail \in {<<>>, <<58>>, <<122>>}}
QrModes == {"BYTE", "ALPHANUMERIC", "NUMERIC"}
QrCall(name, data, mode) ==
  [r |-> "", op |-> name, code |-> "", arg |-> data, status |-> 0, url |-> "",
   src |-> "", prev |-> NoCtx, mode |-> mode, version |-> 0]
QrAnswer(call, result) ==
  [call EXCEPT !.status = IF result.ok THEN 200 ELSE 400,
               !.mode = result.mode, !.version = result.version]

InitQr ==
  /\ CodegenFrame
  /\ req = [r \in Reqs |-> Idle]
  /\ \/ \E data \in QrData : \E mode \in QrModes : out = QrCall("generateQRCode", data, mode)
     \/ \E data \in QrData : out = QrCall("generateQRCodeAuto", data, "")

\* generateQRCode(data, outputPath, mode)
GenerateQRCode ==
  /\ out.op = "generateQRCode" /\ out.status = 0
  /\ out' = QrAnswer(out, generateQRCode(out.arg, out.mode))
  /\ UNCHANGED <<now, urls, redis, url_scans, click_totals, req, bg, ops, ticks, faults>>

\* generateQRCode(data, outputPath): the mode is detected.
GenerateQRCodeAuto ==
  /\ out.op = "generateQRCodeAuto" /\ out.status = 0
  /\ out' = QrAnswer(out, generateQRCode(out.arg, detectOptimalMode(out.arg)))
  /\ UNCHANGED <<now, urls, redis, url_scans, click_totals, req, bg, ops, ticks, faults>>

NextQr == GenerateQRCode \/ GenerateQRCodeAuto
SpecQr == InitQr /\ [][NextQr]_vars

\* Size of the data in bytes: in ISO-8859-1, the writer's byte-mode charset
\* (one byte per character), and in UTF-8.
Latin1Size(data) == Len(data)
RECURSIVE Utf8Size(_)
Utf8Size(data) ==
  IF data = <<>> THEN 0
  ELSE (IF Head(data) < 128 THEN 1 ELSE IF Head(data) < 2048 THEN 2
        ELSE IF Head(data) < 65536 THEN 3 ELSE 4) + Utf8Size(Tail(data))
LowestVersion(size, capacities) ==
  CHOOSE v \in 1..4 :
    /\ v <= 3 => size <= capacities[v]
    /\ \A w \in 1..3 : size <= capacities[w] => v <= w

\* What the claim asks of a finished call whose data has `bytes` bytes.
QrAsClaimed(bytes) ==
  LET data == out.arg
      mode == out.mode
      accepted == out.status = 200
  IN /\ (out.op = "generateQRCodeAuto")
          => (mode = "ALPHANUMERIC" <=> isAlphanumeric(data))
     /\ mode = "BYTE" =>
          /\ accepted <=> bytes <= 53
          /\ accepted => out.version = LowestVersion(bytes, <<17, 32, 53>>)
     /\ mode = "ALPHANUMERIC" =>
          /\ accepted <=> (Len(data) <= 77 /\ isAlphanumeric(data))
          /\ accepted => out.version = LowestVersion(Len(data), <<25, 47, 77>>)

\* C32: byte mode rejects data whose encoded size exceeds 53 bytes,
\* alphanumeric mode rejects data of more than 77 characters or with a
\* character outside the alphanumeric set; otherwise the lowest version
\* 1..3 whose capacity (17/32/53 bytes, 25/47/77 characters) holds the data
\* is selected; auto-detection chooses alphanumeric exactly for data all in
\* the alphanumeric set.  The encoded size is taken in the writer's charset
\* or in UTF-8, whichever agrees with the call's answer.
C32_QrCapacity ==
  (out.op \in {"generateQRCode", "generateQRCodeAuto"} /\ out.status # 0
     /\ out.mode \in {"BYTE", "ALPHANUMERIC"})
    => (QrAsClaimed(Latin1Size(out.arg)) \/ QrAsClaimed(Utf8Size(out.arg)))

(***************************************************************************)
(* C33.  Every component that reads, writes or deletes the cache entry of  *)
(* a code uses the same key for it: when an update (PATCH /api/:code or    *)
(* POST /api/update) performs its invalidation, no entry is left under any *)
(* key that a redirect path, the API's or the edge worker's, reads for     *)
(* that code.                                                              *)
(***************************************************************************)
C33_OneCacheKey ==
  [][\A r \in Reqs :
       (/\ req[r].op \in {"patch", "update"} /\ req[r].pc = "invalidate"
        /\ req'[r].pc = "idle" /\ NoFault)
       => \A k \in {ApiKey(req[r].code), WorkerKey(req[r].code)} : redis'[k] = NoEntry]_vars

(***************************************************************************)
(* C34.  A successful create schedules the cache write of code ->          *)
(* destination with the TTL of the TTL policy; when that write runs, the   *)
(* cache holds the entry for that TTL (so the next resolve is a hit); when *)
(* it fails, neither the create response nor the stored record changes.    *)
(***************************************************************************)
C34_CreatePrimesCache ==
  [][/\ \A r \in Reqs :
          (Responds(r) /\ out'.op = "shorten" /\ out'.status = 200)
          => \E t \in bg' :
               /\ t.kind = "cacheSet" /\ t.code = out'.code /\ t.value = out'.url
               /\ t.ttl = PolicyTtl(urls'[out'.code], now)
     /\ \A t \in bg \ bg' :
          (t.kind = "cacheSet" /\ NoFault)
          => /\ redis'[ApiKey(t.code)] = [value |-> t.value, exp |-> now + t.ttl * MsPerSec]
             /\ now < redis'[ApiKey(t.code)].exp
     /\ \A t \in bg \ bg' :
          (t.kind = "cacheSet" /\ ~NoFault) => (urls' = urls /\ out' = out /\ redis' = redis)]_vars

(***************************************************************************)
(* Once dispatched, the handlers of GET /api/resolve/:code and GET /:code  *)
(* answer by one and the same rule, under every interleaving: the cached   *)
(* destination on a hit, else 404 without a row, 410 for an expired row,   *)
(* else the row's destination, with 200 and 302 respectively; and both     *)
(* populate the cache with the same TTL.                                   *)
(***************************************************************************)
HandlersFollowOneRule ==
  [][\A r \in Reqs :
       LET op == IF req[r].pc = "idle" THEN req'[r].op ELSE req[r].op
           first == req[r].pc = "idle" /\ ops' # ops
           code == IF first /\ req'[r].pc = "idle" THEN out'.code
                   ELSE IF first THEN req'[r].code ELSE req[r].code
           found == IF op = "resolve" THEN 200 ELSE 302
           row == urls[code]
       IN /\ (first /\ Responds(r) /\ out'.op \in {"resolve", "redirect"}
                /\ out'.code \in Codes /\ NoFault)
             => LET ok == IF out'.op = "resolve" THEN 200 ELSE 302 IN
                  /\ RedisGet(ApiKey(out'.code)) # ""
                  /\ out'.status = ok /\ out'.url = RedisGet(ApiKey(out'.code))
          /\ (first /\ req'[r].pc = "find" /\ req'[r].op \in {"resolve", "redirect"})
             => RedisGet(ApiKey(req'[r].code)) = ""
          /\ (req[r].pc = "find" /\ req[r].op \in {"resolve", "redirect"}
                /\ Responds(r) /\ NoFault)
             => /\ row = NoRow => (out'.status = 404 /\ out'.url = "")
                /\ (row # NoRow /\ row.expires_at # Null /\ row.expires_at < now)
                     => (out'.status = 410 /\ out'.url = "")
                /\ (row # NoRow /\ ~(row.expires_at # Null /\ row.expires_at < now))
                     => /\ out'.status = found /\ out'.url = row.long_url
                        /\ \E t \in bg' :
                             /\ t.kind = "cacheSet" /\ t.code = code /\ t.value = row.long_url
                             /\ t.ttl = IF row.expires_at = Null THEN DefaultTtl
                                        ELSE Max(MinTtl, (row.expires_at - now) \div MsPerSec)]_vars

(***************************************************************************)
(* Route dispatch of the API for GET requests.  Handlers are tried in      *)
(* registration order, and the first one that answers wins: GET /health    *)
(* (index.ts 635) is registered before the catch-all GET /:code (640).     *)
(* Here each handler runs in one step, from a store and a cache drawn from *)
(* the states a create, an expiry and a cache write can leave.             *)
(***************************************************************************)
RouteCodes == {"sale123", "health"}
RouteRow(expires_at) ==
  [long_url |-> "https://a.example", alias |-> "", expires_at |-> expires_at,
   qr_status |-> "failed", qr_url |-> ""]
RouteRows == {NoRow, RouteRow(Null), RouteRow(50000), RouteRow(130500)}
RouteEntries ==
  {NoEntry, [value |-> "https://b.example", exp |-> 200000],
            [value |-> "https://b.example", exp |-> 50000]}

InitRoutes ==
  /\ now = 100000
  /\ urls \in [RouteCodes -> RouteRows]
  /\ redis \in [{ApiKey(c) : c \in RouteCodes} -> RouteEntries]
  /\ url_scans = <<>>
  /\ click_totals = [c \in RouteCodes |-> 0]
  /\ req = [r \in Reqs |-> Idle]
  /\ bg = {}
  /\ out = NoResp
  /\ ops = 0
  /\ ticks = 0
  /\ faults = 0

\* The handler of GET /api/resolve/:code, every backing call answering:
\* its response and the background tasks it starts.
resolveHandler(code) ==
  LET cached == RedisGet(ApiKey(code))
      row == urls[code]
  IN IF cached # "" THEN [status |-> 200, url |-> cached, tasks |-> {}]
     ELSE IF row = NoRow THEN [status |-> 404, url |-> "", tasks |-> {}]
     ELSE IF IsExpired(row, now) THEN [status |-> 410, url |-> "", tasks |-> {}]
     ELSE [status |-> 200, url |-> row.long_url,
           tasks |-> {cacheSet(code, row.long_url, CacheTtl(row, now))}]

\* The handler of GET /:code.
redirectHandler(code) ==
  LET cached == RedisGet(ApiKey(code))
      row == urls[code]
  IN IF cached # "" THEN [status |-> 302, url |-> cached, tasks |-> {logScan(code, 1)}]
     ELSE IF row = NoRow THEN [status |-> 404, url |-> "", tasks |-> {}]
     ELSE IF IsExpired(row, now) THEN [status |-> 410, url |-> "", tasks |-> {}]
     ELSE [status |-> 302, url |-> row.long_url,
           tasks |-> {cacheSet(code, row.long_url, CacheTtl(row, now)),
                      incrementClick(code, 1), logScan(code, 1)}]

\* GET /health: c.json({status: "ok"}).
healthHandler == [status |-> 200, url |-> "", tasks |-> {}]

RouteAnswer(route, code, answer) ==
  /\ ops = 0
  /\ ops' = 1
  /\ out' = [NoResp EXCEPT !.r = "r1", !.op = route, !.code = code,
                           !.status = answer.status, !.url = answer.url]
  /\ bg' = answer.tasks
  /\ UNCHANGED <<now, urls, redis, url_scans, click_totals, req, ticks, faults>>

\* GET /api/resolve/<code>
GetApiResolve(code) == RouteAnswer("GET /api/resolve/:code", code, resolveHandler(code))

\* GET /<code>
GetPath(code) ==
  RouteAnswer("GET /:code", code,
              IF code = "health" THEN healthHandler ELSE redirectHandler(code))

NextRoutes ==
  \/ \E code \in RouteCodes : GetApiResolve(code)
  \/ \E code \in RouteCodes : GetPath(code)
SpecRoutes == InitRoutes /\ [][NextRoutes]_vars

(***************************************************************************)
(* C35.  In every state of cache and store, GET /api/resolve/:code and     *)
(* GET /:code agree for a well-formed code: the cached destination on a    *)
(* hit, else 404 without a row, 410 for an expired row, else the row's     *)
(* destination, returned by resolve (200) exactly when the redirect goes   *)
(* to it (302); and both populate the cache with the same TTL.             *)
(***************************************************************************)
C35_ResolveAndRedirectAgree ==
  out.op \in {"GET /api/resolve/:code", "GET /:code"} =>
    LET found == IF out.op = "GET /:code" THEN 302 ELSE 200
        cached == RedisGet(ApiKey(out.code))
        row == urls[out.code]
        expired == row.expires_at # Null /\ row.expires_at < now
    IN /\ cached # "" => (out.status = found /\ out.url = cached)
       /\ (cached = "" /\ row = NoRow) => (out.status = 404 /\ out.url = "")
       /\ (cached = "" /\ row # NoRow /\ expired) => (out.status = 410 /\ out.url = "")
       /\ (cached = "" /\ row # NoRow /\ ~expired)
            => /\ out.status = found /\ out.url = row.long_url
               /\ \E t \in bg :
                    /\ t.kind = "cacheSet" /\ t.code = out.code /\ t.value = row.long_url
                    /\ t.ttl = IF row.expires_at = Null THEN DefaultTtl
                               ELSE Max(MinTtl, (row.expires_at - now) \div MsPerSec)

(***************************************************************************)
(* C36.  PATCH /api/:code and POST /api/update accept exactly the same new *)
(* destinations for a code: a destination that either endpoint writes to   *)
(* the store is one the other endpoint's validation accepts too (it parses *)
(* as a URL and has a scheme and a host); and once either endpoint's cache *)
(* invalidation has run without failure, the row holds the new destination *)
(* and the cache holds no entry for the code.                              *)
(***************************************************************************)
C36_PatchAndUpdateAgree ==
  [][\A r \in Reqs :
       /\ (/\ req'[r].op \in {"patch", "update"}
           /\ req'[r].wrote /\ ~req[r].wrote)
          => LET u == ParseUrl(req'[r].url)
             IN /\ req'[r].url # "" /\ u.ok /\ u.protocol # "" /\ u.host # ""
                /\ urls'[req'[r].code].long_url = req'[r].url
       /\ (/\ req[r].op \in {"patch", "update"} /\ req[r].pc = "invalidate"
           /\ req'[r].pc = "idle" /\ NoFault)
          => /\ redis'[ApiKey(req[r].code)] = NoEntry
             /\ out'.status = 200]_vars

(***************************************************************************)
(* C37.  Once every request has answered and every background task has     *)
(* completed, no call having failed, the click total of each code equals   *)
(* the number of scan events recorded for it: every redirect that ends in  *)
(* REDIRECT, from the cache or from the store, is counted once in both.    *)
(***************************************************************************)
C37_ClicksEqualScans ==
  (/\ \A r \in Reqs : req[r].pc = "idle"
   /\ bg = {}
   /\ faults = 0)
  => \A c \in Codes :
       click_totals[c] = Cardinality({i \in DOMAIN url_scans : url_scans[i].short_code = c})
====
